---- MODULE Spec2Model ----
(***************************************************************************)
(* Player-mention extraction and rule-based sentiment scoring of           *)
(* sentiment_analysis.py.  Text is modelled as a sequence of one-character *)
(* strings, so that lower-casing, title-casing, stripping, sentence        *)
(* splitting, whole-word search and substring search are computed          *)
(* character by character, as Python computes them.                        *)
(***************************************************************************)
EXTENDS Integers, Sequences, FiniteSets, TLC

(***************************************************************************)
(* Characters                                                              *)
(***************************************************************************)
LowerLetters ==
  <<"a","b","c","d","e","f","g","h","i","j","k","l","m",
    "n","o","p","q","r","s","t","u","v","w","x","y","z">>

UpperLetters ==
  <<"A","B","C","D","E","F","G","H","I","J","K","L","M",
    "N","O","P","Q","R","S","T","U","V","W","X","Y","Z">>

LowerSet == {LowerLetters[i] : i \in 1..26}

UpperSet == {UpperLetters[i] : i \in 1..26}

Digits == {"0","1","2","3","4","5","6","7","8","9"}

\* Python's str.strip() with no argument strips whitespace.
Whitespace == {" ", "\t", "\n"}

\* the character class [.!?] of the sentence splitter
SentencePunct == {".", "!", "?"}

IsLetter(c) == c \in LowerSet \/ c \in UpperSet

\* the regular-expression class \w
IsWordChar(c) == IsLetter(c) \/ c \in Digits \/ c = "_"

ToLower(c) ==
  IF c \in UpperSet
    THEN LowerLetters[CHOOSE i \in 1..26 : UpperLetters[i] = c]
    ELSE c

ToUpper(c) ==
  IF c \in LowerSet
    THEN UpperLetters[CHOOSE i \in 1..26 : LowerLetters[i] = c]
    ELSE c

(***************************************************************************)
(* Python string methods                                                   *)
(***************************************************************************)
Min(S) == CHOOSE x \in S : \A y \in S : x <= y

Max(S) == CHOOSE x \in S : \A y \in S : x >= y

\* the elements of a finite set of integers in ascending order
SortedSeq(S) ==
  [k \in 1..Cardinality(S) |->
     CHOOSE x \in S : Cardinality({y \in S : y < x}) = k - 1]

\* str.lower()
lower(s) == [i \in 1..Len(s) |-> ToLower(s[i])]

\* str.title(): a letter is upper-cased when it follows a non-letter (or
\* starts the string) and lower-cased otherwise.
title(s) ==
  [i \in 1..Len(s) |->
     IF IsLetter(s[i])
       THEN IF i = 1 \/ ~IsLetter(s[i-1]) THEN ToUpper(s[i]) ELSE ToLower(s[i])
       ELSE s[i]]

\* str.strip()
strip(s) ==
  LET keep == {i \in 1..Len(s) : s[i] \notin Whitespace}
  IN  IF keep = {} THEN <<>> ELSE SubSeq(s, Min(keep), Max(keep))

\* s[:n]
Prefix(s, n) == SubSeq(s, 1, IF Len(s) < n THEN Len(s) ELSE n)

\* full.endswith(suffix)
endswith(full, suffix) ==
  /\ Len(suffix) <= Len(full)
  /\ SubSeq(full, Len(full) - Len(suffix) + 1, Len(full)) = suffix

\* player.split()[-1]: the last whitespace-separated token
last_token(s) ==
  LET keep == {i \in 1..Len(s) : s[i] \notin Whitespace}
      e    == Max(keep)
      ws   == {i \in 1..e : s[i] \in Whitespace}
  IN  SubSeq(s, IF ws = {} THEN 1 ELSE Max(ws) + 1, e)

\* `phrase in text`: substring test
Contains(text, phrase) ==
  \/ Len(phrase) = 0
  \/ \E i \in 1..(Len(text) - Len(phrase) + 1) :
       /\ text[i] = phrase[1]
       /\ SubSeq(text, i, i + Len(phrase) - 1) = phrase

\* re.split(r'[.!?]+', text): the pieces between maximal runs of sentence
\* punctuation, an empty piece before a leading and after a trailing run.
split_sentences(text) ==
  LET n == Len(text)
      runStarts ==
        SortedSeq({i \in 1..n : /\ text[i] \in SentencePunct
                                /\ (i = 1 \/ text[i-1] \notin SentencePunct)})
      runEnds ==
        SortedSeq({i \in 1..n : /\ text[i] \in SentencePunct
                                /\ (i = n \/ text[i+1] \notin SentencePunct)})
      r == Len(runStarts)
  IN  [k \in 1..(r + 1) |->
         SubSeq(text,
                IF k = 1 THEN 1 ELSE runEnds[k-1] + 1,
                IF k = r + 1 THEN n ELSE runStarts[k] - 1)]

(***************************************************************************)
(* Static tables                                                           *)
(***************************************************************************)
NBA_ROSTERS ==
  <<
    [team |-> "Boston Celtics", players |-> <<
      (* Jayson Tatum *) <<"J","a","y","s","o","n"," ","T","a","t","u","m">>,
      (* Jaylen Brown *) <<"J","a","y","l","e","n"," ","B","r","o","w","n">>,
      (* Derrick White *) <<"D","e","r","r","i","c","k"," ","W","h","i","t","e">>,
      (* Jrue Holiday *) <<"J","r","u","e"," ","H","o","l","i","d","a","y">>,
      (* Kristaps Porzingis *) <<"K","r","i","s","t","a","p","s"," ","P","o","r","z","i","n","g","i","s">>,
      (* Al Horford *) <<"A","l"," ","H","o","r","f","o","r","d">>,
      (* Payton Pritchard *) <<"P","a","y","t","o","n"," ","P","r","i","t","c","h","a","r","d">>,
      (* Sam Hauser *) <<"S","a","m"," ","H","a","u","s","e","r">>
    >>],
    [team |-> "Los Angeles Lakers", players |-> <<
      (* LeBron James *) <<"L","e","B","r","o","n"," ","J","a","m","e","s">>,
      (* Anthony Davis *) <<"A","n","t","h","o","n","y"," ","D","a","v","i","s">>,
      (* Austin Reaves *) <<"A","u","s","t","i","n"," ","R","e","a","v","e","s">>,
      (* D'Angelo Russell *) <<"D","'","A","n","g","e","l","o"," ","R","u","s","s","e","l","l">>,
      (* Rui Hachimura *) <<"R","u","i"," ","H","a","c","h","i","m","u","r","a">>,
      (* Gabe Vincent *) <<"G","a","b","e"," ","V","i","n","c","e","n","t">>,
      (* Jarred Vanderbilt *) <<"J","a","r","r","e","d"," ","V","a","n","d","e","r","b","i","l","t">>,
      (* Max Christie *) <<"M","a","x"," ","C","h","r","i","s","t","i","e">>
    >>],
    [team |-> "Golden State Warriors", players |-> <<
      (* Stephen Curry *) <<"S","t","e","p","h","e","n"," ","C","u","r","r","y">>,
      (* Draymond Green *) <<"D","r","a","y","m","o","n","d"," ","G","r","e","e","n">>,
      (* Andrew Wiggins *) <<"A","n","d","r","e","w"," ","W","i","g","g","i","n","s">>,
      (* Klay Thompson *) <<"K","l","a","y"," ","T","h","o","m","p","s","o","n">>,
      (* Jonathan Kuminga *) <<"J","o","n","a","t","h","a","n"," ","K","u","m","i","n","g","a">>,
      (* Kevon Looney *) <<"K","e","v","o","n"," ","L","o","o","n","e","y">>,
      (* Chris Paul *) <<"C","h","r","i","s"," ","P","a","u","l">>,
      (* Brandin Podziemski *) <<"B","r","a","n","d","i","n"," ","P","o","d","z","i","e","m","s","k","i">>
    >>],
    [team |-> "Denver Nuggets", players |-> <<
      (* Nikola Jokic *) <<"N","i","k","o","l","a"," ","J","o","k","i","c">>,
      (* Jamal Murray *) <<"J","a","m","a","l"," ","M","u","r","r","a","y">>,
      (* Michael Porter Jr *) <<"M","i","c","h","a","e","l"," ","P","o","r","t","e","r"," ","J","r">>,
      (* Aaron Gordon *) <<"A","a","r","o","n"," ","G","o","r","d","o","n">>,
      (* Kentavious Caldwell-Pope *) <<"K","e","n","t","a","v","i","o","u","s"," ","C","a","l","d","w","e","l","l","-","P","o","p","e">>,
      (* Reggie Jackson *) <<"R","e","g","g","i","e"," ","J","a","c","k","s","o","n">>,
      (* Christian Braun *) <<"C","h","r","i","s","t","i","a","n"," ","B","r","a","u","n">>
    >>],
    [team |-> "Milwaukee Bucks", players |-> <<
      (* Giannis Antetokounmpo *) <<"G","i","a","n","n","i","s"," ","A","n","t","e","t","o","k","o","u","n","m","p","o">>,
      (* Damian Lillard *) <<"D","a","m","i","a","n"," ","L","i","l","l","a","r","d">>,
      (* Khris Middleton *) <<"K","h","r","i","s"," ","M","i","d","d","l","e","t","o","n">>,
      (* Brook Lopez *) <<"B","r","o","o","k"," ","L","o","p","e","z">>,
      (* Bobby Portis *) <<"B","o","b","b","y"," ","P","o","r","t","i","s">>,
      (* Malik Beasley *) <<"M","a","l","i","k"," ","B","e","a","s","l","e","y">>,
      (* Pat Connaughton *) <<"P","a","t"," ","C","o","n","n","a","u","g","h","t","o","n">>
    >>],
    [team |-> "Phoenix Suns", players |-> <<
      (* Kevin Durant *) <<"K","e","v","i","n"," ","D","u","r","a","n","t">>,
      (* Devin Booker *) <<"D","e","v","i","n"," ","B","o","o","k","e","r">>,
      (* Bradley Beal *) <<"B","r","a","d","l","e","y"," ","B","e","a","l">>,
      (* Jusuf Nurkic *) <<"J","u","s","u","f"," ","N","u","r","k","i","c">>,
      (* Grayson Allen *) <<"G","r","a","y","s","o","n"," ","A","l","l","e","n">>,
      (* Eric Gordon *) <<"E","r","i","c"," ","G","o","r","d","o","n">>,
      (* Royce O'Neale *) <<"R","o","y","c","e"," ","O","'","N","e","a","l","e">>
    >>],
    [team |-> "Philadelphia 76ers", players |-> <<
      (* Joel Embiid *) <<"J","o","e","l"," ","E","m","b","i","i","d">>,
      (* Tyrese Maxey *) <<"T","y","r","e","s","e"," ","M","a","x","e","y">>,
      (* Paul George *) <<"P","a","u","l"," ","G","e","o","r","g","e">>,
      (* Kelly Oubre Jr *) <<"K","e","l","l","y"," ","O","u","b","r","e"," ","J","r">>,
      (* Tobias Harris *) <<"T","o","b","i","a","s"," ","H","a","r","r","i","s">>,
      (* De'Anthony Melton *) <<"D","e","'","A","n","t","h","o","n","y"," ","M","e","l","t","o","n">>,
      (* Nicolas Batum *) <<"N","i","c","o","l","a","s"," ","B","a","t","u","m">>
    >>],
    [team |-> "Miami Heat", players |-> <<
      (* Jimmy Butler *) <<"J","i","m","m","y"," ","B","u","t","l","e","r">>,
      (* Bam Adebayo *) <<"B","a","m"," ","A","d","e","b","a","y","o">>,
      (* Tyler Herro *) <<"T","y","l","e","r"," ","H","e","r","r","o">>,
      (* Terry Rozier *) <<"T","e","r","r","y"," ","R","o","z","i","e","r">>,
      (* Jaime Jaquez Jr *) <<"J","a","i","m","e"," ","J","a","q","u","e","z"," ","J","r">>,
      (* Duncan Robinson *) <<"D","u","n","c","a","n"," ","R","o","b","i","n","s","o","n">>,
      (* Caleb Martin *) <<"C","a","l","e","b"," ","M","a","r","t","i","n">>
    >>],
    [team |-> "Dallas Mavericks", players |-> <<
      (* Luka Doncic *) <<"L","u","k","a"," ","D","o","n","c","i","c">>,
      (* Kyrie Irving *) <<"K","y","r","i","e"," ","I","r","v","i","n","g">>,
      (* Daniel Gafford *) <<"D","a","n","i","e","l"," ","G","a","f","f","o","r","d">>,
      (* Dereck Lively II *) <<"D","e","r","e","c","k"," ","L","i","v","e","l","y"," ","I","I">>,
      (* Tim Hardaway Jr *) <<"T","i","m"," ","H","a","r","d","a","w","a","y"," ","J","r">>,
      (* Josh Green *) <<"J","o","s","h"," ","G","r","e","e","n">>,
      (* Maxi Kleber *) <<"M","a","x","i"," ","K","l","e","b","e","r">>
    >>],
    [team |-> "New York Knicks", players |-> <<
      (* Jalen Brunson *) <<"J","a","l","e","n"," ","B","r","u","n","s","o","n">>,
      (* Julius Randle *) <<"J","u","l","i","u","s"," ","R","a","n","d","l","e">>,
      (* OG Anunoby *) <<"O","G"," ","A","n","u","n","o","b","y">>,
      (* Donte DiVincenzo *) <<"D","o","n","t","e"," ","D","i","V","i","n","c","e","n","z","o">>,
      (* Josh Hart *) <<"J","o","s","h"," ","H","a","r","t">>,
      (* Mitchell Robinson *) <<"M","i","t","c","h","e","l","l"," ","R","o","b","i","n","s","o","n">>,
      (* Isaiah Hartenstein *) <<"I","s","a","i","a","h"," ","H","a","r","t","e","n","s","t","e","i","n">>
    >>]
  >>

POSITIVE_INDICATORS ==
  <<
    (* played great *) <<"p","l","a","y","e","d"," ","g","r","e","a","t">>,
    (* played well *) <<"p","l","a","y","e","d"," ","w","e","l","l">>,
    (* excellent *) <<"e","x","c","e","l","l","e","n","t">>,
    (* fantastic *) <<"f","a","n","t","a","s","t","i","c">>,
    (* amazing *) <<"a","m","a","z","i","n","g">>,
    (* incredible *) <<"i","n","c","r","e","d","i","b","l","e">>,
    (* outstanding *) <<"o","u","t","s","t","a","n","d","i","n","g">>,
    (* tremendous *) <<"t","r","e","m","e","n","d","o","u","s">>,
    (* phenomenal *) <<"p","h","e","n","o","m","e","n","a","l">>,
    (* brilliant *) <<"b","r","i","l","l","i","a","n","t">>,
    (* stepped up *) <<"s","t","e","p","p","e","d"," ","u","p">>,
    (* came through *) <<"c","a","m","e"," ","t","h","r","o","u","g","h">>,
    (* delivered *) <<"d","e","l","i","v","e","r","e","d">>,
    (* dominated *) <<"d","o","m","i","n","a","t","e","d">>,
    (* took over *) <<"t","o","o","k"," ","o","v","e","r">>,
    (* earned *) <<"e","a","r","n","e","d">>,
    (* deserves *) <<"d","e","s","e","r","v","e","s">>,
    (* trust *) <<"t","r","u","s","t">>,
    (* confident in *) <<"c","o","n","f","i","d","e","n","t"," ","i","n">>,
    (* believe in *) <<"b","e","l","i","e","v","e"," ","i","n">>,
    (* going to play *) <<"g","o","i","n","g"," ","t","o"," ","p","l","a","y">>,
    (* more minutes *) <<"m","o","r","e"," ","m","i","n","u","t","e","s">>,
    (* expanded role *) <<"e","x","p","a","n","d","e","d"," ","r","o","l","e">>,
    (* starting *) <<"s","t","a","r","t","i","n","g">>,
    (* love what he *) <<"l","o","v","e"," ","w","h","a","t"," ","h","e">>,
    (* love his *) <<"l","o","v","e"," ","h","i","s">>,
    (* really like *) <<"r","e","a","l","l","y"," ","l","i","k","e">>,
    (* impressed *) <<"i","m","p","r","e","s","s","e","d">>,
    (* improved *) <<"i","m","p","r","o","v","e","d">>,
    (* getting better *) <<"g","e","t","t","i","n","g"," ","b","e","t","t","e","r">>,
    (* growing *) <<"g","r","o","w","i","n","g">>,
    (* progressing *) <<"p","r","o","g","r","e","s","s","i","n","g">>,
    (* developing *) <<"d","e","v","e","l","o","p","i","n","g">>,
    (* matured *) <<"m","a","t","u","r","e","d">>,
    (* evolved *) <<"e","v","o","l","v","e","d">>,
    (* next level *) <<"n","e","x","t"," ","l","e","v","e","l">>,
    (* breakthrough *) <<"b","r","e","a","k","t","h","r","o","u","g","h">>,
    (* leader *) <<"l","e","a","d","e","r">>,
    (* vocal *) <<"v","o","c","a","l">>,
    (* sets the tone *) <<"s","e","t","s"," ","t","h","e"," ","t","o","n","e">>,
    (* brings energy *) <<"b","r","i","n","g","s"," ","e","n","e","r","g","y">>,
    (* competitor *) <<"c","o","m","p","e","t","i","t","o","r">>,
    (* professional *) <<"p","r","o","f","e","s","s","i","o","n","a","l">>,
    (* works hard *) <<"w","o","r","k","s"," ","h","a","r","d">>,
    (* first one in *) <<"f","i","r","s","t"," ","o","n","e"," ","i","n">>,
    (* dedicated *) <<"d","e","d","i","c","a","t","e","d">>,
    (* great defense *) <<"g","r","e","a","t"," ","d","e","f","e","n","s","e">>,
    (* shot well *) <<"s","h","o","t"," ","w","e","l","l">>,
    (* efficient *) <<"e","f","f","i","c","i","e","n","t">>,
    (* smart plays *) <<"s","m","a","r","t"," ","p","l","a","y","s">>,
    (* controlled the game *) <<"c","o","n","t","r","o","l","l","e","d"," ","t","h","e"," ","g","a","m","e">>,
    (* made winning plays *) <<"m","a","d","e"," ","w","i","n","n","i","n","g"," ","p","l","a","y","s">>,
    (* clutch *) <<"c","l","u","t","c","h">>
  >>

NEGATIVE_INDICATORS ==
  <<
    (* struggled *) <<"s","t","r","u","g","g","l","e","d">>,
    (* had a tough *) <<"h","a","d"," ","a"," ","t","o","u","g","h">>,
    (* didn't play well *) <<"d","i","d","n","'","t"," ","p","l","a","y"," ","w","e","l","l">>,
    (* off night *) <<"o","f","f"," ","n","i","g","h","t">>,
    (* not his best *) <<"n","o","t"," ","h","i","s"," ","b","e","s","t">>,
    (* needs to be better *) <<"n","e","e","d","s"," ","t","o"," ","b","e"," ","b","e","t","t","e","r">>,
    (* got to do more *) <<"g","o","t"," ","t","o"," ","d","o"," ","m","o","r","e">>,
    (* unacceptable *) <<"u","n","a","c","c","e","p","t","a","b","l","e">>,
    (* disappointed *) <<"d","i","s","a","p","p","o","i","n","t","e","d">>,
    (* frustrating *) <<"f","r","u","s","t","r","a","t","i","n","g">>,
    (* concerning *) <<"c","o","n","c","e","r","n","i","n","g">>,
    (* won't play *) <<"w","o","n","'","t"," ","p","l","a","y">>,
    (* less minutes *) <<"l","e","s","s"," ","m","i","n","u","t","e","s">>,
    (* coming off bench *) <<"c","o","m","i","n","g"," ","o","f","f"," ","b","e","n","c","h">>,
    (* reduced role *) <<"r","e","d","u","c","e","d"," ","r","o","l","e">>,
    (* not ready *) <<"n","o","t"," ","r","e","a","d","y">>,
    (* not there yet *) <<"n","o","t"," ","t","h","e","r","e"," ","y","e","t">>,
    (* needs work *) <<"n","e","e","d","s"," ","w","o","r","k">>,
    (* has to earn *) <<"h","a","s"," ","t","o"," ","e","a","r","n">>,
    (* look at other options *) <<"l","o","o","k"," ","a","t"," ","o","t","h","e","r"," ","o","p","t","i","o","n","s">>,
    (* evaluate *) <<"e","v","a","l","u","a","t","e">>,
    (* figure out *) <<"f","i","g","u","r","e"," ","o","u","t">>,
    (* focus *) <<"f","o","c","u","s">>,
    (* concentration *) <<"c","o","n","c","e","n","t","r","a","t","i","o","n">>,
    (* attention to detail *) <<"a","t","t","e","n","t","i","o","n"," ","t","o"," ","d","e","t","a","i","l">>,
    (* discipline *) <<"d","i","s","c","i","p","l","i","n","e">>,
    (* can't have *) <<"c","a","n","'","t"," ","h","a","v","e">>,
    (* not acceptable *) <<"n","o","t"," ","a","c","c","e","p","t","a","b","l","e">>,
    (* expect more *) <<"e","x","p","e","c","t"," ","m","o","r","e">>,
    (* demand more *) <<"d","e","m","a","n","d"," ","m","o","r","e">>,
    (* day to day *) <<"d","a","y"," ","t","o"," ","d","a","y">>,
    (* questionable *) <<"q","u","e","s","t","i","o","n","a","b","l","e">>,
    (* dealing with *) <<"d","e","a","l","i","n","g"," ","w","i","t","h">>,
    (* managing *) <<"m","a","n","a","g","i","n","g">>,
    (* turnovers *) <<"t","u","r","n","o","v","e","r","s">>,
    (* defensive lapses *) <<"d","e","f","e","n","s","i","v","e"," ","l","a","p","s","e","s">>,
    (* shot selection *) <<"s","h","o","t"," ","s","e","l","e","c","t","i","o","n">>,
    (* forcing *) <<"f","o","r","c","i","n","g">>,
    (* out of control *) <<"o","u","t"," ","o","f"," ","c","o","n","t","r","o","l">>,
    (* decision making *) <<"d","e","c","i","s","i","o","n"," ","m","a","k","i","n","g">>,
    (* costly mistakes *) <<"c","o","s","t","l","y"," ","m","i","s","t","a","k","e","s">>
  >>

NEUTRAL_INDICATORS ==
  <<
    (* we'll see *) <<"w","e","'","l","l"," ","s","e","e">>,
    (* evaluate *) <<"e","v","a","l","u","a","t","e">>,
    (* day by day *) <<"d","a","y"," ","b","y"," ","d","a","y">>,
    (* game to game *) <<"g","a","m","e"," ","t","o"," ","g","a","m","e">>,
    (* depends on *) <<"d","e","p","e","n","d","s"," ","o","n">>,
    (* matchup *) <<"m","a","t","c","h","u","p">>,
    (* situation *) <<"s","i","t","u","a","t","i","o","n">>,
    (* look at film *) <<"l","o","o","k"," ","a","t"," ","f","i","l","m">>
  >>

(***************************************************************************)
(* PLAYER_TO_TEAM: an insertion-ordered dict, modelled as the sequence of  *)
(* its (key, value) entries in insertion order.                            *)
(***************************************************************************)
HasKey(d, k) == \E i \in 1..Len(d) : d[i].name = k

\* d[k] = v: an existing key keeps its place and takes the new value
DictSet(d, k, v) ==
  IF HasKey(d, k)
    THEN [i \in 1..Len(d) |-> IF d[i].name = k THEN [name |-> k, team |-> v] ELSE d[i]]
    ELSE Append(d, [name |-> k, team |-> v])

\* registering the last name without looking whether the key is taken
RegisterPlayer_overwriting(d, team, player) ==
  DictSet(DictSet(d, lower(player), team), lower(last_token(player)), team)

RegisterPlayer(d, team, player) ==
  LET d1        == DictSet(d, lower(player), team)
      last_name == lower(last_token(player))
  IN  IF HasKey(d1, last_name) THEN d1 ELSE DictSet(d1, last_name, team)

\* Len(d) >= 0 is always true: it makes TLC evaluate the dict built so far
\* before the next player is registered, like the loop of the source.
RECURSIVE RegisterTeam(_, _, _, _)
RegisterTeam(d, team, players, pi) ==
  IF Len(d) >= 0 /\ pi > Len(players) THEN d
  ELSE RegisterTeam(RegisterPlayer(d, team, players[pi]), team, players, pi + 1)

RECURSIVE BuildIndex(_, _, _)
BuildIndex(rosters, d, ti) ==
  IF Len(d) >= 0 /\ ti > Len(rosters) THEN d
  ELSE BuildIndex(rosters,
                  RegisterTeam(d, rosters[ti].team, rosters[ti].players, 1),
                  ti + 1)

PLAYER_TO_TEAM == BuildIndex(NBA_ROSTERS, <<>>, 1)

(***************************************************************************)
(* extract_player_mentions                                                 *)
(***************************************************************************)
ShortContextLen == 100

MaxContextLen == 500

DedupKeyLen == 100

\* \b holds before index i (1..Len+1) when exactly one of the characters on
\* its two sides is a word character; outside the text counts as non-word.
WordBoundaries(text) ==
  LET n    == Len(text)
      W(i) == i >= 1 /\ i <= n /\ IsWordChar(text[i])
  IN  {i \in 1..(n + 1) : W(i - 1) # W(i)}

\* the pattern without its closing \b
CandidatesOpenEnded(text, bounds, name) ==
  {i \in bounds : /\ i + Len(name) - 1 <= Len(text)
                  /\ text[i] = name[1]
                  /\ SubSeq(text, i, i + Len(name) - 1) = name}

\* every place where \b name \b matches in text (1-based start indices)
Candidates(text, bounds, name) ==
  {i \in bounds : /\ i + Len(name) - 1 <= Len(text)
                  /\ (i + Len(name)) \in bounds
                  /\ text[i] = name[1]
                  /\ SubSeq(text, i, i + Len(name) - 1) = name}

\* re.finditer: leftmost matches, each search resuming at the end of the
\* previous match, so that the matches do not overlap
RECURSIVE NonOverlapping(_, _, _, _)
NonOverlapping(cands, k, resume, len) ==
  IF k > Len(cands) THEN <<>>
  ELSE IF cands[k] >= resume
    THEN <<cands[k]>> \o NonOverlapping(cands, k + 1, cands[k] + len, len)
    ELSE NonOverlapping(cands, k + 1, resume, len)

\* the values of match.start() (0-based) in the order finditer yields them
finditer(text, bounds, name) ==
  LET found == NonOverlapping(SortedSeq(Candidates(text, bounds, name)), 1, 1, Len(name))
  IN  [k \in 1..Len(found) |-> found[k] - 1]

RECURSIVE char_count(_, _)
char_count(sentences, k) ==
  IF k = 0 THEN 0 ELSE char_count(sentences, k - 1) + Len(sentences[k]) + 1

\* the first sentence whose running char_count exceeds start_pos, stripped;
\* the empty string when the loop ends without a break
base_context(sentences, start_pos) ==
  LET over == {k \in 1..Len(sentences) : char_count(sentences, k) > start_pos}
  IN  IF over = {} THEN <<>> ELSE strip(sentences[Min(over)])

\* sentences.index(context) if context in sentences else -1  (0-based)
sent_index(sentences, context) ==
  LET at == {k \in 1..Len(sentences) : sentences[k] = context}
  IN  IF at = {} THEN -1 ELSE Min(at) - 1

\* Python indexing sentences[i], where a negative i counts from the end
PyIndex(sentences, i) ==
  IF i >= 0 THEN sentences[i + 1] ELSE sentences[Len(sentences) + i + 1]

expand_context(sentences, context) ==
  IF Len(context) >= ShortContextLen THEN context
  ELSE
    LET sent_idx == sent_index(sentences, context)
        c1 == IF sent_idx > 0
                THEN strip(PyIndex(sentences, sent_idx - 1)) \o <<".", " ">> \o context
                ELSE context
    IN  IF sent_idx < Len(sentences) - 1
          THEN c1 \o <<".", " ">> \o strip(PyIndex(sentences, sent_idx + 1))
          ELSE c1

\* the matched identifier, kept as it is
resolve_full_name_matched(index, player_name, team) == player_name

\* the first key of the index, on the same team, that ends with the matched
\* identifier and is longer; the matched identifier when there is none
resolve_full_name(index, player_name, team) ==
  LET longer == {i \in 1..Len(index) :
                   /\ index[i].team = team
                   /\ endswith(index[i].name, player_name)
                   /\ Len(index[i].name) > Len(player_name)}
  IN  IF longer = {} THEN player_name ELSE index[Min(longer)].name

\* context[:500]
limit_context_unbounded(text) == text

limit_context(text) == Prefix(text, MaxContextLen)

Mention(index, sentences, e, start_pos) ==
  [player_name |-> title(resolve_full_name(index, index[e].name, index[e].team)),
   team        |-> index[e].team,
   context     |-> limit_context(expand_context(sentences, base_context(sentences, start_pos))),
   position    |-> start_pos]

RECURSIVE MentionsFrom(_, _, _, _, _, _)
MentionsFrom(index, sentences, text, bounds, entries, k) ==
  IF k > Len(entries) THEN <<>>
  ELSE
    LET e     == entries[k]
        found == finditer(text, bounds, index[e].name)
    IN  [j \in 1..Len(found) |-> Mention(index, sentences, e, found[j])]
          \o MentionsFrom(index, sentences, text, bounds, entries, k + 1)

\* the list `mentions` before deduplication: index entries in insertion
\* order, and for each entry its matches in ascending position
found_mentions(index, transcript) ==
  LET transcript_lower == lower(transcript)
      sentences        == split_sentences(transcript)
      bounds           == WordBoundaries(transcript_lower)
      entries          == SortedSeq({e \in 1..Len(index) :
                             Candidates(transcript_lower, bounds, index[e].name) # {}})
  IN  MentionsFrom(index, sentences, transcript_lower, bounds, entries, 1)

DedupKey(m) == <<m.player_name, Prefix(m.context, DedupKeyLen)>>

RECURSIVE Dedup(_, _, _)
Dedup(mentions, k, seen) ==
  IF k > Len(mentions) THEN <<>>
  ELSE IF DedupKey(mentions[k]) \notin seen
    THEN <<mentions[k]>> \o Dedup(mentions, k + 1, seen \cup {DedupKey(mentions[k])})
    ELSE Dedup(mentions, k + 1, seen)

\* returning the list without deduplicating it
deduplicate_nothing(found) == found

deduplicate(found) == Dedup(found, 1, {})

\* the value of coach_team when the argument is left out
NoTeam == "None"

RECURSIVE team_first(_, _, _)
team_first(found, coach_team, own) ==
  IF found = <<>> THEN <<>>
  ELSE IF (found[1].team = coach_team) = own
    THEN <<found[1]>> \o team_first(Tail(found), coach_team, own)
    ELSE team_first(Tail(found), coach_team, own)

\* the Mentions of the coach's team put before the others
extract_player_mentions_team_first(transcript, coach_team) ==
  LET found == deduplicate(found_mentions(PLAYER_TO_TEAM, transcript))
  IN  team_first(found, coach_team, TRUE) \o team_first(found, coach_team, FALSE)

\* coach_team is a parameter the body never reads
extract_player_mentions(transcript, coach_team) ==
  deduplicate(found_mentions(PLAYER_TO_TEAM, transcript))

(***************************************************************************)
(* analyze_sentiment_rules                                                 *)
(*                                                                         *)
(* Floats are modelled exactly: a score is the rational num/den with       *)
(* den > 0, `total` is kept in thousandths (total = (pos + neg) + 0.001)   *)
(* and a confidence is kept in ten-thousandths (0.3 is 3000).              *)
(***************************************************************************)
\* "no clear indicators"
NoClearIndicators ==
  <<"n","o"," ","c","l","e","a","r"," ","i","n","d","i","c","a","t","o","r","s">>

\* the indicators of a list that occur in the text, in list order
indicators_found(indicator_list, context_lower) ==
  LET occurs(phrase) == Contains(context_lower, phrase)
  IN  SelectSeq(indicator_list, occurs)

\* total without the 0.001 term
total_thousandths_exact(pos_weight, neg_weight) == 1000 * (pos_weight + neg_weight)

\* total = pos_weight + neg_weight + 0.001, in thousandths
total_thousandths(pos_weight, neg_weight) == 1000 * (pos_weight + neg_weight) + 1

\* min(-1, max(1, score)): min and max exchanged
clamp_exchanged(score) ==
  LET hi == IF score.num > score.den THEN score ELSE [num |-> 1, den |-> 1]
  IN  IF hi.num < 0 - hi.den THEN hi ELSE [num |-> -1, den |-> 1]

\* max(-1, min(1, score))
clamp(score) ==
  IF score.num > score.den THEN [num |-> 1, den |-> 1]
  ELSE IF score.num < 0 - score.den THEN [num |-> -1, den |-> 1]
  ELSE score

\* the difference of the weights, neither divided by total nor clamped
rule_score_unnormalised(pos_weight, neg_weight) ==
  [num |-> pos_weight - neg_weight, den |-> 1]

\* score = (pos_weight - neg_weight) / total, clamped to [-1, 1]
rule_score(pos_weight, neg_weight) ==
  clamp([num |-> 1000 * (pos_weight - neg_weight),
         den |-> total_thousandths(pos_weight, neg_weight)])

\* score > 0.2 / score < -0.2 / otherwise
rule_label(score) ==
  IF 5 * score.num > score.den THEN "positive"
  ELSE IF 5 * score.num < 0 - score.den THEN "negative"
  ELSE "neutral"

\* 0.4 + total * 0.1 without the cap
rule_confidence_uncapped(pos_weight, neg_weight) ==
  4000 + total_thousandths(pos_weight, neg_weight)

\* min(0.9, 0.4 + total * 0.1), in ten-thousandths
rule_confidence(pos_weight, neg_weight) ==
  LET c == 4000 + total_thousandths(pos_weight, neg_weight)
  IN  IF c < 9000 THEN c ELSE 9000

\* the early return without the "no clear indicators" default
no_indicator_result_bare(neutral_found) ==
  [score      |-> [num |-> 0, den |-> 1],
   label      |-> "neutral",
   confidence |-> 3000,
   indicators |-> neutral_found]

\* the early return when no positive and no negative indicator was found
no_indicator_result(neutral_found) ==
  [score      |-> [num |-> 0, den |-> 1],
   label      |-> "neutral",
   confidence |-> 3000,
   indicators |-> IF neutral_found # <<>> THEN neutral_found ELSE <<NoClearIndicators>>]

analyze_sentiment_rules(text) ==
  LET context_lower  == lower(text)
      positive_found == indicators_found(POSITIVE_INDICATORS, context_lower)
      negative_found == indicators_found(NEGATIVE_INDICATORS, context_lower)
      neutral_found  == indicators_found(NEUTRAL_INDICATORS, context_lower)
      pos_weight     == Len(positive_found)
      neg_weight     == Len(negative_found)
      score          == rule_score(pos_weight, neg_weight)
  IN  IF pos_weight = 0 /\ neg_weight = 0
        THEN no_indicator_result(neutral_found)
        ELSE [score      |-> score,
              label      |-> rule_label(score),
              confidence |-> rule_confidence(pos_weight, neg_weight),
              indicators |-> positive_found \o negative_found]

(***************************************************************************)
(* Inputs                                                                  *)
(***************************************************************************)
MaxParts == 3

MaxContextParts == 3

Filler(n) == [i \in 1..n |-> "x"]

\* A transcript is up to MaxParts of these pieces, concatenated.
TranscriptPieces ==
  { <<"J","a","y","s","o","n"," ","T","a","t","u","m">>,
    <<" ","T","A","T","U","M">>,
    <<"E","r","i","c"," ","G","o","r","d","o","n">>,
    <<".", " ">>,
    <<"?","!","?","!",".",".",".">>,
    Filler(99),
    Filler(500),
    <<"_","7">> }

\* "He struggled with turnovers and was not ready."
ExampleNegativeContext ==
  <<"H","e"," ","s","t","r","u","g","g","l","e","d"," ","w","i","t","h"," ",
    "t","u","r","n","o","v","e","r","s"," ","a","n","d"," ","w","a","s"," ",
    "n","o","t"," ","r","e","a","d","y",".">>

\* A context is up to MaxContextParts of these pieces, concatenated.
ContextPieces ==
  { <<"p","l","a","y","e","d"," ","g","r","e","a","t">>,
    <<" ","S","t","e","p","p","e","d"," ","u","p"," ","a","n","d"," ",
      "d","e","l","i","v","e","r","e","d">>,
    <<" ","s","t","r","u","g","g","l","e","d"," ","w","i","t","h"," ",
      "t","u","r","n","o","v","e","r","s">>,
    <<" ","H","e"," ","w","a","s"," ","t","h","e","r","e">>,
    ExampleNegativeContext,
    <<" ","w","e","'","l","l"," ","s","e","e">>,
    <<" ","e","v","a","l","u","a","t","e">>,
    <<" ","L","e","a","r","n","e","d">>,
    <<" ","t","h","e"," ","m","a","t","c","h","u","p">> }

(***************************************************************************)
(* State                                                                   *)
(***************************************************************************)
VARIABLES
  pc,               \* "input" | "located" | "context" | "scored"
  nparts,           \* number of pieces the input text was built from
  transcript,       \* the text handed to extract_player_mentions
  mentions,         \* extract_player_mentions: the list before deduplication
  unique_mentions,  \* extract_player_mentions: the list returned
  context,          \* the text handed to the scorer
  result,           \* the tuple returned by the scorer
  llm_outcome,      \* what the external service did in analyze_sentiment_llm
  llm_calls,        \* requests sent to the external service by that call
  llm_raised,       \* an exception left analyze_sentiment_llm
  directory,        \* what TRANSCRIPTS_DIR.glob("*.json") lists
  limit,            \* the limit argument of the last run: <<>> is None, <<n>> is n
  files,            \* transcript_files: the transcripts the loop goes over
  use_llm,          \* the use_llm argument of the running batch
  bpc,              \* run_batch_analysis: "idle" | "running" | "done" |
                    \*   "interrupted" | "crashed"
  idx,              \* run_batch_analysis: place of the next file (from 1)
  processed,        \* places whose try block ended without an exception
  failed,           \* places whose exception was caught and printed
  completed,        \* number of runs that reached "Analysis complete!"
  runs,             \* number of runs started
  store,            \* table player_sentiments, rows in rowid order
  next_id,          \* the next AUTOINCREMENT id
  clock,            \* datetime.utcnow()
  query,            \* the last query function called, with its argument
  fetched,          \* compute_player_trends: rows, as cursor.fetchall() gave them
  answer,           \* what the last query function returned
  roster_table,     \* the roster table the index is built from
  player_to_team,   \* PLAYER_TO_TEAM as built so far, in insertion order
  team_at,          \* place of the team the outer loop is at (from 1)
  player_at,        \* place of the player the inner loop is at (from 1)
  pending,          \* run_batch_analysis: the PlayerMentions being saved
  executed,         \* save_sentiment_results: INSERTs executed so far
  txn,              \* the table and next id as the open connection sees them
  write_lock,       \* "free" | "held": a connection left open holds the lock
  for_team          \* the coach_team argument of the last call of the locator

textVars == <<pc, nparts, transcript, mentions, unique_mentions, context, result>>

llmVars == <<llm_outcome, llm_calls, llm_raised>>

batchVars == <<directory, limit, files, use_llm, bpc, idx, processed, failed, completed, runs>>

storeVars == <<store, next_id, clock>>

queryVars == <<query, fetched, answer>>

indexVars == <<roster_table, player_to_team, team_at, player_at>>

saveVars == <<pending, executed, txn, write_lock>>

callVars == <<for_team>>

nonTextVars == <<llmVars, batchVars, storeVars, queryVars, indexVars, saveVars, callVars>>

vars == <<textVars, llmVars, batchVars, storeVars, queryVars, indexVars, saveVars, callVars>>

NoResult == [score |-> [num |-> 0, den |-> 1], label |-> "none",
             confidence |-> 0, indicators |-> <<>>]

\* no call of analyze_sentiment_llm yet
NoOutcome == [kind |-> "none", answer |-> NoResult]

LLMIdle ==
  /\ llm_outcome = NoOutcome
  /\ llm_calls = 0
  /\ llm_raised = FALSE

NoQuery == [op |-> "none", arg |-> "none"]

NoAnswer == [kind |-> "none"]

\* no query function called
QueryIdle ==
  /\ query = NoQuery
  /\ fetched = <<>>
  /\ answer = NoAnswer

\* no batch started, no transcript file
BatchIdle ==
  /\ directory = <<>>
  /\ limit = <<>>
  /\ files = <<>>
  /\ use_llm = FALSE
  /\ bpc = "idle"
  /\ idx = 1
  /\ processed = {}
  /\ failed = {}
  /\ completed = 0
  /\ runs = 0

\* no connection is open
NoTransaction == [rows |-> <<>>, next_id |-> 0]

\* no save is going on, the locator was not called with a team
SaveIdle ==
  /\ pending = <<>>
  /\ executed = 0
  /\ txn = NoTransaction
  /\ write_lock = "free"
  /\ for_team = "None"

\* no index is being built
IndexIdle ==
  /\ roster_table = <<>>
  /\ player_to_team = <<>>
  /\ team_at = 1
  /\ player_at = 1

\* the table as init_sentiment_database creates it
StoreEmpty ==
  /\ store = <<>>
  /\ next_id = 1
  /\ clock = 0

(***************************************************************************)
(* Mention Locator: a caller builds a transcript and calls                 *)
(* extract_player_mentions on it.                                          *)
(***************************************************************************)
InitLocator ==
  /\ pc = "input"
  /\ nparts = 0
  /\ transcript = <<>>
  /\ mentions = <<>>
  /\ unique_mentions = <<>>
  /\ context = <<>>
  /\ result = NoResult
  /\ LLMIdle
  /\ BatchIdle
  /\ StoreEmpty
  /\ QueryIdle
  /\ IndexIdle
  /\ SaveIdle

AppendTranscriptPiece ==
  /\ pc = "input"
  /\ nparts < MaxParts
  /\ \E piece \in TranscriptPieces : transcript' = transcript \o piece
  /\ nparts' = nparts + 1
  /\ UNCHANGED <<pc, mentions, unique_mentions, context, result, nonTextVars>>

ExtractPlayerMentions ==
  /\ pc = "input"
  /\ mentions' = found_mentions(PLAYER_TO_TEAM, transcript)
  /\ unique_mentions' = deduplicate(mentions')
  /\ pc' = "located"
  /\ UNCHANGED <<nparts, transcript, context, result, nonTextVars>>

NextLocator == AppendTranscriptPiece \/ ExtractPlayerMentions

SpecLocator == InitLocator /\ [][NextLocator]_vars

(***************************************************************************)
(* Sentiment Scorer: a caller builds a context and calls                   *)
(* analyze_sentiment_rules on it.                                          *)
(***************************************************************************)
InitScorer ==
  /\ pc = "context"
  /\ nparts = 0
  /\ transcript = <<>>
  /\ mentions = <<>>
  /\ unique_mentions = <<>>
  /\ context = <<>>
  /\ result = NoResult
  /\ LLMIdle
  /\ BatchIdle
  /\ StoreEmpty
  /\ QueryIdle
  /\ IndexIdle
  /\ SaveIdle

AppendContextPiece ==
  /\ pc = "context"
  /\ nparts < MaxContextParts
  /\ \E piece \in ContextPieces : context' = context \o piece
  /\ nparts' = nparts + 1
  /\ UNCHANGED <<pc, transcript, mentions, unique_mentions, result, nonTextVars>>

AnalyzeSentimentRules ==
  /\ pc = "context"
  /\ result' = analyze_sentiment_rules(context)
  /\ pc' = "scored"
  /\ UNCHANGED <<nparts, transcript, mentions, unique_mentions, context, nonTextVars>>

NextScorer == AppendContextPiece \/ AnalyzeSentimentRules

SpecScorer == InitScorer /\ [][NextScorer]_vars

(***************************************************************************)
(* Name resolution: a caller builds a transcript out of identifiers of the *)
(* roster index and calls extract_player_mentions on it.                   *)
(***************************************************************************)
MaxMentioned == 1

\* ", "
CommaSpace == <<",", " ">>

MentionIdentifier ==
  /\ pc = "input"
  /\ nparts < MaxMentioned
  /\ \E e \in 1..Len(PLAYER_TO_TEAM) :
       transcript' = (IF transcript = <<>> THEN <<>> ELSE transcript \o CommaSpace)
                       \o PLAYER_TO_TEAM[e].name
  /\ nparts' = nparts + 1
  /\ UNCHANGED <<pc, mentions, unique_mentions, context, result, nonTextVars>>

NextResolver == MentionIdentifier \/ ExtractPlayerMentions

SpecResolver == InitLocator /\ [][NextResolver]_vars


(***************************************************************************)
(* analyze_sentiment_llm                                                   *)
(*                                                                         *)
(* What the external service does is an input of the call: the client      *)
(* library cannot be imported, the request fails, the text received is not *)
(* JSON, the JSON lacks one of the four fields, or the JSON carries them.  *)
(***************************************************************************)
\* "trust"
TrustPhrase == <<"t","r","u","s","t">>

LLMFailures == {"import_error", "network_error", "not_json", "missing_field"}

\* well-formed answers; nothing makes the service keep to the ranges that
\* the prompt asks for
LLMAnswers ==
  { [score |-> [num |-> 8, den |-> 10], label |-> "positive",
     confidence |-> 9000, indicators |-> <<TrustPhrase>>],
    [score |-> [num |-> 5, den |-> 1], label |-> "mixed",
     confidence |-> 20000, indicators |-> <<>>] }

LLMOutcomes ==
  {[kind |-> k, answer |-> NoResult] : k \in LLMFailures}
    \cup {[kind |-> "answer", answer |-> a] : a \in LLMAnswers}

\* requests sent to the service: none when the import fails, one otherwise
service_calls(outcome) == IF outcome.kind = "import_error" THEN 0 ELSE 1

\* the try block: the tuple built from the parsed JSON, or an exception
llm_try(outcome) ==
  IF outcome.kind = "answer"
    THEN [ok |-> TRUE, value |-> outcome.answer]
    ELSE [ok |-> FALSE, value |-> NoResult]

\* the call without its except clause
analyze_sentiment_llm_unguarded(text, outcome) ==
  LET attempt == llm_try(outcome)
  IN  [raised |-> ~attempt.ok, value |-> attempt.value,
       calls |-> service_calls(outcome)]

\* except Exception: fall back to the rules
analyze_sentiment_llm(text, outcome) ==
  LET attempt == llm_try(outcome)
  IN  IF attempt.ok
        THEN [raised |-> FALSE, value |-> attempt.value,
              calls |-> service_calls(outcome)]
        ELSE [raised |-> FALSE, value |-> analyze_sentiment_rules(text),
              calls |-> service_calls(outcome)]

MaxLLMContextParts == 2

\* the context handed to analyze_sentiment_llm, built like the scorer's
AppendLLMContextPiece ==
  /\ pc = "context"
  /\ nparts < MaxLLMContextParts
  /\ \E piece \in ContextPieces : context' = context \o piece
  /\ nparts' = nparts + 1
  /\ UNCHANGED <<pc, transcript, mentions, unique_mentions, result, nonTextVars>>

AnalyzeSentimentLLM ==
  /\ pc = "context"
  /\ \E outcome \in LLMOutcomes :
       LET r == analyze_sentiment_llm(context, outcome)
       IN  /\ llm_outcome' = outcome
           /\ result' = r.value
           /\ llm_calls' = r.calls
           /\ llm_raised' = r.raised
  /\ pc' = "scored"
  /\ UNCHANGED <<nparts, transcript, mentions, unique_mentions, context,
                 batchVars, storeVars, queryVars, indexVars, saveVars, callVars>>

NextLLM == AppendLLMContextPiece \/ AnalyzeSentimentLLM

SpecLLM == InitScorer /\ [][NextLLM]_vars


(***************************************************************************)
(* analyze_transcript, save_sentiment_results and run_batch_analysis       *)
(***************************************************************************)
\* "2024-11-01T19:30:00Z"
PublishedNov1 == <<"2","0","2","4","-","1","1","-","0","1","T","1","9",":","3","0",":","0","0","Z">>

\* "2024-11-05T02:00:00Z"
PublishedNov5 == <<"2","0","2","4","-","1","1","-","0","5","T","0","2",":","0","0",":","0","0","Z">>

\* "Jayson Tatum played great."
TranscriptTatum == <<"J","a","y","s","o","n"," ","T","a","t","u","m"," ","p","l","a","y","e","d"," ","g","r","e","a","t",".">>

\* "Eric Gordon struggled"
TranscriptGordon == <<"E","r","i","c"," ","G","o","r","d","o","n"," ","s","t","r","u","g","g","l","e","d">>

\* "We move on"
TranscriptNobody == <<"W","e"," ","m","o","v","e"," ","o","n">>

RequiredKeys == {"transcript", "video_id", "published_at"}

AllKeys == RequiredKeys \cup {"coach_name"}

\* Transcript files: json_ok tells whether json.load succeeds, has the keys
\* of the object it yields.
FileTatum ==
  [json_ok |-> TRUE, has |-> AllKeys, video_id |-> "v1",
   published_at |-> PublishedNov1, coach_name |-> "Joe Mazzulla",
   transcript |-> TranscriptTatum]

FileGordon ==
  [json_ok |-> TRUE, has |-> RequiredKeys, video_id |-> "v2",
   published_at |-> PublishedNov5, coach_name |-> "",
   transcript |-> TranscriptGordon]

FileNobody ==
  [json_ok |-> TRUE, has |-> AllKeys, video_id |-> "v3",
   published_at |-> PublishedNov5, coach_name |-> "Mike Budenholzer",
   transcript |-> TranscriptNobody]

FileNotJson ==
  [json_ok |-> FALSE, has |-> {}, video_id |-> "",
   published_at |-> <<>>, coach_name |-> "", transcript |-> <<>>]

FileNoDate ==
  [json_ok |-> TRUE, has |-> AllKeys \ {"published_at"}, video_id |-> "v4",
   published_at |-> <<>>, coach_name |-> "Joe Mazzulla",
   transcript |-> TranscriptTatum]

TranscriptFiles == {FileTatum, FileGordon, FileNobody, FileNotJson, FileNoDate}

\* What TRANSCRIPTS_DIR.glob("*.json") may list
Directories ==
  { <<>>,
    <<FileNotJson, FileTatum>>,
    <<FileTatum, FileNoDate>>,
    <<FileGordon>>,
    <<FileTatum, FileNobody, FileTatum>> }

MaxRuns == 2

\* json.load and the four reads of data[...] succeed
Readable(file) == file.json_ok /\ RequiredKeys \subseteq file.has

\* extract_player_mentions(data["transcript"]), tabulated for the files above
MentionsTable ==
  {[file  |-> f,
    found |-> IF Readable(f) THEN extract_player_mentions(f.transcript, NoTeam) ELSE <<>>] :
     f \in TranscriptFiles}

file_mentions(f) == (CHOOSE e \in MentionsTable : e.file = f).found

\* one scorer outcome per Mention of the file; only the external scorer
\* consults the service
OutcomeChoices(file, with_llm) ==
  LET n == Len(file_mentions(file))
  IN  IF with_llm THEN [1..n -> LLMOutcomes] ELSE {[k \in 1..n |-> NoOutcome]}

\* a PlayerMention that keeps published_at whole as its date
PlayerMention_full_date(file, mention, scored) ==
  [player_name      |-> mention.player_name,
   team             |-> mention.team,
   context          |-> mention.context,
   sentiment_score  |-> scored.score,
   sentiment_label  |-> scored.label,
   confidence       |-> scored.confidence,
   indicators       |-> scored.indicators,
   video_id         |-> file.video_id,
   coach_name       |-> IF "coach_name" \in file.has THEN file.coach_name ELSE "Unknown",
   date             |-> file.published_at]

\* the PlayerMention built for one Mention
PlayerMention(file, mention, scored) ==
  [player_name      |-> mention.player_name,
   team             |-> mention.team,
   context          |-> mention.context,
   sentiment_score  |-> scored.score,
   sentiment_label  |-> scored.label,
   confidence       |-> scored.confidence,
   indicators       |-> scored.indicators,
   video_id         |-> file.video_id,
   coach_name       |-> IF "coach_name" \in file.has THEN file.coach_name ELSE "Unknown",
   date             |-> Prefix(file.published_at, 10)]

\* the scorer chosen by use_llm, applied to one context
score_context(text, with_llm, outcome) ==
  IF with_llm
    THEN analyze_sentiment_llm(text, outcome)
    ELSE [raised |-> FALSE, value |-> analyze_sentiment_rules(text), calls |-> 0]

\* raised: json.load or a data[...] read raised, or the scorer did
analyze_transcript(file, with_llm, outcomes) ==
  IF ~Readable(file) THEN [raised |-> TRUE, value |-> <<>>]
  ELSE
    LET found  == file_mentions(file)
        scored == [k \in 1..Len(found) |->
                     score_context(found[k].context, with_llm, outcomes[k])]
    IN  [raised |-> \E k \in 1..Len(found) : scored[k].raised,
         value  |-> [k \in 1..Len(found) |->
                       PlayerMention(file, found[k], scored[k].value)]]

\* UNIQUE(video_id, player_name, context)
UniqueKey(row) == <<row.video_id, row.player_name, row.context>>

\* INSERT into player_sentiments under a conflict clause: without a
\* conflict the row is added; with one, REPLACE deletes the rows in conflict
\* and adds the new row, ABORT (the default) raises sqlite3.IntegrityError
sqlite_insert(rows, row, on_conflict) ==
  LET other(r) == UniqueKey(r) # UniqueKey(row)
      clash    == \E i \in DOMAIN rows : ~other(rows[i])
  IN  IF ~clash
        THEN [integrity_error |-> FALSE, rows |-> Append(rows, row)]
      ELSE IF on_conflict = "REPLACE"
        THEN [integrity_error |-> FALSE, rows |-> Append(SelectSeq(rows, other), row)]
      ELSE [integrity_error |-> TRUE, rows |-> rows]

\* a table without the UNIQUE constraint: every INSERT adds a row
insert_without_unique(rows, row) ==
  [integrity_error |-> FALSE, rows |-> Append(rows, row)]

\* INSERT OR REPLACE INTO player_sentiments
insert_or_replace(rows, row) == sqlite_insert(rows, row, "REPLACE")

\* the row written for one PlayerMention; json.dumps(m.indicators) is kept
\* as the list it encodes
SentimentRow(m, id, now) ==
  [id              |-> id,
   video_id        |-> m.video_id,
   player_name     |-> m.player_name,
   team            |-> m.team,
   coach_name      |-> m.coach_name,
   date            |-> m.date,
   context         |-> m.context,
   sentiment_score |-> m.sentiment_score,
   sentiment_label |-> m.sentiment_label,
   confidence      |-> m.confidence,
   indicators      |-> m.indicators,
   analyzed_at     |-> now]

RECURSIVE save_loop(_, _, _, _, _)
save_loop(rows, id, records, k, now) ==
  IF k > Len(records) THEN [store |-> rows, next_id |-> id]
  ELSE
    LET inserted == insert_or_replace(rows, SentimentRow(records[k], id, now))
    IN  IF inserted.integrity_error
          THEN \* except sqlite3.IntegrityError: pass
               save_loop(rows, id, records, k + 1, now)
          ELSE save_loop(inserted.rows, id + 1, records, k + 1, now)

save_sentiment_results(rows, id, records, now) == save_loop(rows, id, records, 1, now)

\* the loop body without its try / except
loop_body_unguarded(file, with_llm, outcomes, rows, id, now) ==
  LET analysis == analyze_transcript(file, with_llm, outcomes)
  IN  IF analysis.raised
        THEN [status |-> "raised", store |-> rows, next_id |-> id]
      ELSE IF analysis.value = <<>>
        THEN [status |-> "ok", store |-> rows, next_id |-> id]
      ELSE LET saved == save_sentiment_results(rows, id, analysis.value, now)
           IN  [status |-> "ok", store |-> saved.store, next_id |-> saved.next_id]

\* one iteration of the loop of run_batch_analysis
loop_body(file, with_llm, outcomes, rows, id, now) ==
  LET analysis == analyze_transcript(file, with_llm, outcomes)
  IN  IF analysis.raised
        THEN [status |-> "error", store |-> rows, next_id |-> id]
      ELSE IF analysis.value = <<>>
        THEN [status |-> "ok", store |-> rows, next_id |-> id]
      ELSE LET saved == save_sentiment_results(rows, id, analysis.value, now)
           IN  [status |-> "ok", store |-> saved.store, next_id |-> saved.next_id]

InitBatch ==
  /\ pc = "batch"
  /\ nparts = 0
  /\ transcript = <<>>
  /\ mentions = <<>>
  /\ unique_mentions = <<>>
  /\ context = <<>>
  /\ result = NoResult
  /\ LLMIdle
  /\ directory \in Directories
  /\ limit = <<>>
  /\ files = <<>>
  /\ use_llm = FALSE
  /\ bpc = "idle"
  /\ idx = 1
  /\ processed = {}
  /\ failed = {}
  /\ completed = 0
  /\ runs = 0
  /\ StoreEmpty
  /\ QueryIdle
  /\ IndexIdle
  /\ SaveIdle

\* None
NoLimit == <<>>

\* The values passed as limit
Limits == {NoLimit, <<0>>, <<1>>, <<2>>}

\* list[:n]
slice_to(list, n) ==
  IF n >= 0
    THEN SubSeq(list, 1, IF n < Len(list) THEN n ELSE Len(list))
    ELSE SubSeq(list, 1, IF Len(list) + n > 0 THEN Len(list) + n ELSE 0)

\* if limit: None and 0 are false, every other integer is true
truthy(lim) == lim # NoLimit /\ lim[1] # 0

\* the list the loop of run_batch_analysis goes over
transcript_files(listed, lim) ==
  IF truthy(lim) THEN slice_to(listed, lim[1]) ELSE listed

\* run_batch_analysis is called: init_sentiment_database creates the table
\* only if it does not exist, then the files are listed and cut to the
\* limit.  clock is the time datetime.utcnow() gives during the run, later
\* in every later run.
StartBatch ==
  /\ bpc \in {"idle", "done", "interrupted"}
  /\ runs < MaxRuns
  /\ \E with_llm \in BOOLEAN : use_llm' = with_llm
  /\ \E lim \in Limits :
       /\ limit' = lim
       /\ files' = transcript_files(directory, lim)
  /\ bpc' = "running"
  /\ idx' = 1
  /\ processed' = {}
  /\ failed' = {}
  /\ runs' = runs + 1
  /\ clock' = clock + 1
  /\ UNCHANGED <<textVars, callVars, indexVars, saveVars, llmVars, directory, completed, store,
                 next_id, queryVars>>

ProcessTranscript ==
  /\ bpc = "running"
  /\ idx <= Len(files)
  /\ \E outcomes \in OutcomeChoices(files[idx], use_llm) :
       \E body \in {loop_body(files[idx], use_llm, outcomes, store, next_id, clock)} :
           /\ store' = body.store
           /\ next_id' = body.next_id
           /\ IF body.status = "raised"
                THEN /\ bpc' = "crashed"
                     /\ UNCHANGED <<idx, processed, failed>>
                ELSE /\ bpc' = bpc
                     /\ idx' = idx + 1
                     /\ processed' = IF body.status = "ok"
                                       THEN processed \cup {idx} ELSE processed
                     /\ failed' = IF body.status = "error"
                                    THEN failed \cup {idx} ELSE failed
  /\ UNCHANGED <<textVars, callVars, indexVars, saveVars, llmVars, directory, limit, files,
                 use_llm, completed, runs, clock, queryVars>>

\* the loop is over: "Analysis complete!"
FinishBatch ==
  /\ bpc = "running"
  /\ idx > Len(files)
  /\ bpc' = "done"
  /\ completed' = completed + 1
  /\ UNCHANGED <<textVars, callVars, indexVars, saveVars, llmVars, directory, limit, files,
                 use_llm, idx, processed, failed, runs,
                 storeVars, queryVars>>

\* the process is stopped between two transcripts
InterruptBatch ==
  /\ bpc = "running"
  /\ idx <= Len(files)
  /\ bpc' = "interrupted"
  /\ UNCHANGED <<textVars, callVars, indexVars, saveVars, llmVars, directory, limit, files,
                 use_llm, idx, processed, failed,
                 completed, runs, storeVars, queryVars>>

NextBatch ==
  StartBatch \/ ProcessTranscript \/ FinishBatch \/ InterruptBatch

SpecBatch == InitBatch /\ [][NextBatch]_vars


(***************************************************************************)
(* Floats: a float is kept as the fraction it stands for.  The two places  *)
(* where its last bits decide are open choices: round(x, 3) of a value     *)
(* half-way between two thousandths, and a comparison of two equal values. *)
(***************************************************************************)
Abs(n) == IF n < 0 THEN 0 - n ELSE n

RECURSIVE GCD(_, _)
GCD(a, b) == IF b = 0 THEN a ELSE GCD(b, a % b)

\* n / d in lowest terms, d > 0
Fraction(n, d) ==
  LET g == GCD(Abs(n), d)
  IN  [num |-> n \div g, den |-> d \div g]

frac_add(p, q) == Fraction(p.num * q.den + q.num * p.den, p.den * q.den)

frac_sub(p, q) == Fraction(p.num * q.den - q.num * p.den, p.den * q.den)

frac_abs(p) == [num |-> Abs(p.num), den |-> p.den]

frac_less(p, q) == p.num * q.den < q.num * p.den

frac_eq(p, q) == p.num * q.den = q.num * p.den

\* sum(scores)
\* the sum, taken by halves: the fractions are exact, so the order of the
\* additions changes nothing
RECURSIVE sum(_)
sum(scores) ==
  IF scores = <<>> THEN [num |-> 0, den |-> 1]
  ELSE IF Len(scores) = 1 THEN scores[1]
  ELSE LET half == Len(scores) \div 2
       IN  frac_add(sum(SubSeq(scores, 1, half)),
                    sum(SubSeq(scores, half + 1, Len(scores))))

\* sum(scores) / len(scores)
mean(scores) ==
  LET total == sum(scores)
  IN  Fraction(total.num, total.den * Len(scores))

\* round(x, 3) in thousandths; ties_up settles the half-way case
round_3(x, ties_up) ==
  LET scaled == x.num * 1000
      below  == scaled \div x.den
      rest   == scaled - below * x.den
  IN  IF 2 * rest < x.den THEN below
      ELSE IF 2 * rest > x.den THEN below + 1
      ELSE IF ties_up THEN below + 1 ELSE below

\* x > y on floats; on_edge settles the case of equal values
float_gt(x, y, on_edge) == frac_less(y, x) \/ (frac_eq(x, y) /\ on_edge)

\* x < y on floats
float_lt(x, y, on_edge) == frac_less(x, y) \/ (frac_eq(x, y) /\ on_edge)

\* the ways round(x, 3) may settle x
ties(x) == IF (2 * x.num * 1000) % (2 * x.den) = x.den THEN BOOLEAN ELSE {FALSE}

\* the ways a comparison of x and y may settle them
edges(x, y) == IF frac_eq(x, y) THEN BOOLEAN ELSE {FALSE}

(***************************************************************************)
(* compute_player_trends                                                   *)
(***************************************************************************)
\* the characters of dates and timestamps in code point order
CodePoints == <<"-", "0", "1", "2", "3", "4", "5", "6", "7", "8", "9", ":", "T", "Z">>

code_point(c) == CHOOSE i \in DOMAIN CodePoints : CodePoints[i] = c

\* a < b for two TEXT values (BINARY collation)
text_less(a, b) ==
  \E i \in 1..(Len(a) + 1) :
    /\ i <= Len(b)
    /\ \A j \in 1..(i - 1) : a[j] = b[j]
    /\ i <= Len(a) => code_point(a[i]) < code_point(b[i])

\* ORDER BY date DESC does not order rows of equal date: every order of the
\* rows numbered in S that puts later dates first
\* the orders rows of one date may come in: any
RECURSIVE tied_orders(_, _)
tied_orders(rows, S) ==
  IF S = {} THEN {<<>>}
  ELSE UNION { {<<rows[x]>> \o o : o \in tied_orders(rows, S \ {x})} : x \in S }

\* the orders of the rows whose date has a place in lo..hi; placed holds
\* <<i, r>> when the date of row i is the r-th latest date
RECURSIVE orders_between(_, _, _, _)
orders_between(rows, placed, lo, hi) ==
  IF lo > hi THEN {<<>>}
  ELSE IF lo = hi THEN tied_orders(rows, {p[1] : p \in {q \in placed : q[2] = lo}})
  ELSE LET mid == (lo + hi) \div 2
       IN  {a \o b : a \in orders_between(rows, placed, lo, mid),
                     b \in orders_between(rows, placed, mid + 1, hi)}

\* ORDER BY date DESC on the rows at the places S: later dates first, rows
\* of one date in any order
date_desc_orders(rows, S) ==
  UNION { UNION { orders_between(rows, placed, 1, Cardinality(found)) :
                  placed \in {{<<i, Cardinality({e \in found : text_less(rows[i].date, e)}) + 1>> :
                                 i \in S}} } :
          found \in {{rows[i].date : i \in S}} }

\* SELECT date, sentiment_score, sentiment_label, context, coach_name
TrendColumns(r) ==
  [date |-> r.date, sentiment_score |-> r.sentiment_score,
   sentiment_label |-> r.sentiment_label, context |-> r.context,
   coach_name |-> r.coach_name]

FetchLimit == 100

RecentWindow == 5

LatestContextLen == 200

\* 0.2
TrendThreshold == [num |-> 1, den |-> 5]

MinusTrendThreshold == [num |-> 0 - TrendThreshold.num, den |-> TrendThreshold.den]

\* the SELECT without its LIMIT
select_player_rows_unlimited(rows, player_name) ==
  { [i \in 1..Len(o) |-> TrendColumns(o[i])] :
    o \in date_desc_orders(rows, {i \in DOMAIN rows : rows[i].player_name = player_name}) }

\* what cursor.fetchall() may give for the SELECT of compute_player_trends
select_player_rows(rows, player_name) ==
  { LET cut == Prefix(o, FetchLimit)
    IN  [i \in 1..Len(cut) |-> TrendColumns(cut[i])] :
    o \in date_desc_orders(rows, {i \in DOMAIN rows : rows[i].player_name = player_name}) }

\* older_avg with 0 as the default
older_mean_zero(older_scores, recent_avg) ==
  IF older_scores # <<>> THEN mean(older_scores) ELSE [num |-> 0, den |-> 1]

\* sum(older_scores) / len(older_scores) if older_scores else recent_avg
older_mean(older_scores, recent_avg) ==
  IF older_scores # <<>> THEN mean(older_scores) ELSE recent_avg

\* the if / elif / else on trend_diff with 0.3 for 0.2
trend_label_wide(trend_diff, float) ==
  IF float_gt(trend_diff, [num |-> 3, den |-> 10], float.above) THEN "improving"
  ELSE IF float_lt(trend_diff, [num |-> 0 - 3, den |-> 10], float.below) THEN "declining"
  ELSE "stable"

\* the if / elif / else on trend_diff
trend_label(trend_diff, float) ==
  IF float_gt(trend_diff, TrendThreshold, float.above) THEN "improving"
  ELSE IF float_lt(trend_diff, MinusTrendThreshold, float.below) THEN "declining"
  ELSE "stable"

\* scores, the averages and trend_diff
trend_values(rows) ==
  LET scores        == [i \in 1..Len(rows) |-> rows[i].sentiment_score]
      split         == IF Len(scores) < RecentWindow THEN Len(scores) ELSE RecentWindow
      recent_scores == SubSeq(scores, 1, split)
      older_scores  == SubSeq(scores, split + 1, Len(scores))
      recent_avg    == mean(recent_scores)
      older_avg     == older_mean(older_scores, recent_avg)
  IN  [avg_score  |-> mean(scores),
       recent_avg |-> recent_avg,
       no_older   |-> older_scores = <<>>,
       older_avg  |-> older_avg,
       trend_diff |-> frac_sub(recent_avg, older_avg)]

\* the float cases left open by these values
open_cases(v) ==
  [avg       : ties(v.avg_score),
   recent    : ties(v.recent_avg),
   older     : ties(v.older_avg),
   magnitude : ties(frac_abs(v.trend_diff)),
   above     : edges(v.trend_diff, TrendThreshold),
   below     : edges(v.trend_diff, MinusTrendThreshold)]

\* the dictionary returned, under one choice of the open float cases
trend_report(player_name, rows, v, float) ==
  [kind            |-> "trend",
   player_name     |-> player_name,
   mention_count   |-> Len(rows),
   avg_sentiment   |-> round_3(v.avg_score, float.avg),
   recent_avg      |-> round_3(v.recent_avg, float.recent),
   \* without older scores older_avg is the very float recent_avg is
   older_avg       |-> round_3(v.older_avg, IF v.no_older /\ frac_eq(v.older_avg, v.recent_avg)
                                              THEN float.recent ELSE float.older),
   trend           |-> trend_label(v.trend_diff, float),
   trend_magnitude |-> round_3(frac_abs(v.trend_diff), float.magnitude),
   latest_mentions |-> [i \in 1..(IF Len(rows) < RecentWindow THEN Len(rows) ELSE RecentWindow) |->
                          [date    |-> rows[i].date,
                           score   |-> rows[i].sentiment_score,
                           label   |-> rows[i].sentiment_label,
                           context |-> Prefix(rows[i].context, LatestContextLen),
                           coach   |-> rows[i].coach_name]]]

\* the test "if not rows" left out: the division by len(scores) raises
trend_results_unguarded(player_name, rows) ==
  IF rows = <<>> THEN {[kind |-> "raised", error |-> "ZeroDivisionError"]}
  ELSE UNION { {trend_report(player_name, rows, v, float) : float \in open_cases(v)} :
               v \in {trend_values(rows)} }

\* what compute_player_trends may return once the rows are fetched
trend_results(player_name, rows) ==
  IF rows = <<>> THEN {[kind |-> "error", error |-> player_name]}
  ELSE UNION { {trend_report(player_name, rows, v, float) : float \in open_cases(v)} :
               v \in {trend_values(rows)} }

\* what compute_player_trends(player_name) may return, with the rows fetched
compute_player_trends(rows, player_name) ==
  UNION { {[fetched |-> f, answer |-> a] : a \in trend_results(player_name, f)} :
          f \in select_player_rows(rows, player_name) }

(***************************************************************************)
(* The records the queries run on                                          *)
(***************************************************************************)
JaysonTatum == <<"J","a","y","s","o","n"," ","T","a","t","u","m">>

JaylenBrown == <<"J","a","y","l","e","n"," ","B","r","o","w","n">>

DevinBooker == <<"D","e","v","i","n"," ","B","o","o","k","e","r">>

Nov01 == <<"2","0","2","4","-","1","1","-","0","1">>

Nov02 == <<"2","0","2","4","-","1","1","-","0","2">>

Nov03 == <<"2","0","2","4","-","1","1","-","0","3">>

Nov04 == <<"2","0","2","4","-","1","1","-","0","4">>

Nov05 == <<"2","0","2","4","-","1","1","-","0","5">>

\* "He was there"
FeedContext == <<"H","e"," ","w","a","s"," ","t","h","e","r","e">>

\* The PlayerMentions saved one after another: the k-th has the player, team
\* and date of place k and one of its scores (in ten-thousandths).
TrendFeed ==
  << [player_name |-> JaysonTatum, team |-> "Boston Celtics", date |-> Nov03, scores |-> {0, 2010}],
     [player_name |-> JaylenBrown, team |-> "Boston Celtics", date |-> Nov02, scores |-> {0 - 3000, 0 - 2003, 3004}],
     [player_name |-> JaysonTatum, team |-> "Boston Celtics", date |-> Nov05, scores |-> {0, 5000}],
     [player_name |-> JaysonTatum, team |-> "Boston Celtics", date |-> Nov02, scores |-> {0, 5000}],
     [player_name |-> JaysonTatum, team |-> "Boston Celtics", date |-> Nov01, scores |-> {0, 5000}],
     [player_name |-> JaysonTatum, team |-> "Boston Celtics", date |-> Nov03, scores |-> {0, 5000}],
     [player_name |-> JaysonTatum, team |-> "Boston Celtics", date |-> Nov02, scores |-> {0, 5000}],
     [player_name |-> JaysonTatum, team |-> "Boston Celtics", date |-> Nov04, scores |-> {0, 5000}],
     [player_name |-> JaysonTatum, team |-> "Boston Celtics", date |-> Nov01, scores |-> {0, 2010}],
     [player_name |-> JaylenBrown, team |-> "Boston Celtics", date |-> Nov01, scores |-> {0, 5000}] >>

VideoIds == <<"t1", "t2", "t3", "t4", "t5", "t6", "t7", "t8", "t9", "t10">>

MaxRecords == 8

\* the PlayerMention at place k of the feed, with the score the scorer gave
FeedMention(k, units) ==
  LET score == [num |-> units, den |-> 10000]
  IN  [player_name      |-> TrendFeed[k].player_name,
       team             |-> TrendFeed[k].team,
       context          |-> FeedContext,
       sentiment_score  |-> score,
       sentiment_label  |-> rule_label(score),
       confidence       |-> 5000,
       indicators       |-> <<>>,
       video_id         |-> VideoIds[k],
       coach_name       |-> "Joe Mazzulla",
       date             |-> TrendFeed[k].date]

\* the players asked about; no record is ever saved for Devin Booker
QueryPlayers == {JaysonTatum, JaylenBrown, DevinBooker}

InitTrend ==
  /\ pc = "queries"
  /\ nparts = 0
  /\ transcript = <<>>
  /\ mentions = <<>>
  /\ unique_mentions = <<>>
  /\ context = <<>>
  /\ result = NoResult
  /\ LLMIdle
  /\ BatchIdle
  /\ StoreEmpty
  /\ QueryIdle
  /\ IndexIdle
  /\ SaveIdle

\* save_sentiment_results on the next PlayerMention of the feed
SaveRecord ==
  /\ next_id <= MaxRecords
  /\ next_id <= Len(TrendFeed)
  /\ \E units \in TrendFeed[next_id].scores :
       \E saved \in {save_sentiment_results(store, next_id,
                                             <<FeedMention(next_id, units)>>, clock)} :
         /\ store' = saved.store
         /\ next_id' = saved.next_id
  /\ query' = NoQuery
  /\ fetched' = <<>>
  /\ answer' = NoAnswer
  /\ UNCHANGED <<textVars, callVars, indexVars, saveVars, llmVars, batchVars, clock>>

\* A query function is called once its caller has taken the previous answer:
\* the queries read the store only, so their order changes no answer.
ComputePlayerTrends ==
  /\ query = NoQuery
  /\ \E player_name \in QueryPlayers :
       \E returned \in compute_player_trends(store, player_name) :
         /\ query' = [op |-> "compute_player_trends", arg |-> player_name]
         /\ fetched' = returned.fetched
         /\ answer' = returned.answer
  /\ UNCHANGED <<textVars, callVars, indexVars, saveVars, llmVars, batchVars, storeVars>>


(***************************************************************************)
(* get_team_sentiment_report                                               *)
(***************************************************************************)
\* 0.3 and -0.2, in thousandths, compared with the rounded averages
FavoriteThreshold == 300

WatchThreshold == 0 - 200

\* GROUP BY player_name for the rows of the team: player_name, COUNT(*),
\* AVG(sentiment_score), MAX(date)
team_groups(rows, team) ==
  { LET of_player(r) == r.team = team /\ r.player_name = p
        own          == SelectSeq(rows, of_player)
        dates        == {own[i].date : i \in DOMAIN own}
    IN  [player_name    |-> p,
         mention_count  |-> Len(own),
         avg_sentiment  |-> mean([i \in 1..Len(own) |-> own[i].sentiment_score]),
         last_mentioned |-> CHOOSE d \in dates : \A e \in dates : ~text_less(d, e)] :
    p \in {rows[i].player_name : i \in {j \in DOMAIN rows : rows[j].team = team}} }

\* ORDER BY avg_sentiment DESC does not order groups of equal average
RECURSIVE avg_desc_orders(_)
avg_desc_orders(groups) ==
  IF groups = {} THEN {<<>>}
  ELSE UNION { {<<g>> \o o : o \in avg_desc_orders(groups \ {g})} :
               g \in {h \in groups :
                        \A k \in groups : ~frac_less(h.avg_sentiment, k.avg_sentiment)} }

\* "positive" if row[2] > 0.2 else ("negative" if row[2] < -0.2 else "neutral")
sentiment_category(avg, float) ==
  IF float_gt(avg, TrendThreshold, float.above) THEN "positive"
  ELSE IF float_lt(avg, MinusTrendThreshold, float.below) THEN "negative"
  ELSE "neutral"

\* the entries that may be appended to players for one row
player_entries(row) ==
  { [player_name        |-> row.player_name,
     mention_count      |-> row.mention_count,
     avg_sentiment      |-> round_3(row.avg_sentiment, float.avg),
     sentiment_category |-> sentiment_category(row.avg_sentiment, float),
     last_mentioned     |-> row.last_mentioned] :
    float \in [avg   : ties(row.avg_sentiment),
               above : edges(row.avg_sentiment, TrendThreshold),
               below : edges(row.avg_sentiment, MinusTrendThreshold)] }

\* the lists players that the loop over the fetched rows may build
RECURSIVE players_lists(_)
players_lists(rows) ==
  IF rows = <<>> THEN {<<>>}
  ELSE {<<e>> \o rest : e \in player_entries(rows[1]), rest \in players_lists(Tail(rows))}

names_of(players) == [i \in 1..Len(players) |-> players[i].player_name]

team_report(team, players) ==
  LET positive(p) == p.avg_sentiment > FavoriteThreshold
      negative(p) == p.avg_sentiment < WatchThreshold
  IN  [kind                    |-> "report",
       team                    |-> team,
       total_players_mentioned |-> Len(players),
       players                 |-> players,
       coach_favorites         |-> names_of(SelectSeq(players, positive)),
       players_to_watch        |-> names_of(SelectSeq(players, negative))]

\* what get_team_sentiment_report(team) may return
get_team_sentiment_report(rows, team) ==
  UNION { {team_report(team, players) : players \in players_lists(fetch)} :
          fetch \in avg_desc_orders(team_groups(rows, team)) }

(***************************************************************************)
(* find_sentiment_shifts                                                   *)
(***************************************************************************)
\* SELECT DISTINCT player_name gives the names in some order
RECURSIVE name_orders(_)
name_orders(names) ==
  IF names = {} THEN {<<>>}
  ELSE UNION { {<<n>> \o o : o \in name_orders(names \ {n})} : n \in names }

\* what the loop body appends to shifts for one player
shift_entry(player, trend, min_shift) ==
  IF trend.kind # "error" /\ trend.trend_magnitude >= min_shift
    THEN << [player_name   |-> player,
             trend         |-> trend.trend,
             magnitude     |-> trend.trend_magnitude,
             recent_avg    |-> trend.recent_avg,
             older_avg     |-> trend.older_avg,
             mention_count |-> trend.mention_count] >>
    ELSE <<>>

\* the lists shifts that the loop over players may build
RECURSIVE shift_lists(_, _, _)
shift_lists(rows, players, min_shift) ==
  IF players = <<>> THEN {<<>>}
  ELSE { shift_entry(players[1], returned.answer, min_shift) \o rest :
         returned \in compute_player_trends(rows, players[1]),
         rest \in shift_lists(rows, Tail(players), min_shift) }

\* where list.sort puts e among entries already in place: after every
\* entry of greater or equal magnitude (the sort is stable)
insert_by_magnitude(sorted, e) ==
  LET before == {i \in DOMAIN sorted : sorted[i].magnitude >= e.magnitude}
      k      == Cardinality(before)
  IN  SubSeq(sorted, 1, k) \o <<e>> \o SubSeq(sorted, k + 1, Len(sorted))

\* the sort left out
sort_shifts_kept(shifts) == shifts

\* shifts.sort(key=lambda x: x["magnitude"], reverse=True)
RECURSIVE sort_shifts(_)
sort_shifts(shifts) ==
  IF shifts = <<>> THEN <<>>
  ELSE insert_by_magnitude(sort_shifts(SubSeq(shifts, 1, Len(shifts) - 1)),
                           shifts[Len(shifts)])

\* what find_sentiment_shifts(min_shift) may return
find_sentiment_shifts(rows, min_shift) ==
  UNION { {sort_shifts(shifts) : shifts \in shift_lists(rows, players, min_shift)} :
          players \in name_orders({rows[i].player_name : i \in DOMAIN rows}) }

QueryTeams == {"Boston Celtics", "Phoenix Suns"}

\* min_shift in thousandths; 0.3 is the default
MinShifts == {0, 200, 300}

GetTeamSentimentReport ==
  /\ query = NoQuery
  /\ \E team \in QueryTeams :
       \E report \in get_team_sentiment_report(store, team) :
         /\ query' = [op |-> "get_team_sentiment_report", arg |-> team]
         /\ answer' = report
  /\ fetched' = <<>>
  /\ UNCHANGED <<textVars, callVars, indexVars, saveVars, llmVars, batchVars, storeVars>>

FindSentimentShifts ==
  /\ query = NoQuery
  /\ \E min_shift \in MinShifts :
       \E shifts \in find_sentiment_shifts(store, min_shift) :
         /\ query' = [op |-> "find_sentiment_shifts", arg |-> min_shift]
         /\ answer' = [kind |-> "shifts", shifts |-> shifts]
  /\ fetched' = <<>>
  /\ UNCHANGED <<textVars, callVars, indexVars, saveVars, llmVars, batchVars, storeVars>>

NextTrend ==
  SaveRecord \/ ComputePlayerTrends \/ GetTeamSentimentReport \/ FindSentimentShifts

SpecTrend == InitTrend /\ [][NextTrend]_vars


(***************************************************************************)
(* Roster index: the module-level loop that builds PLAYER_TO_TEAM from a   *)
(* roster table, one player at a time.                                     *)
(***************************************************************************)
AaronGordon == <<"A","a","r","o","n"," ","G","o","r","d","o","n">>

EricGordon == <<"E","r","i","c"," ","G","o","r","d","o","n">>

Gordon == <<"G","o","r","d","o","n">>

\* The names a small roster table lists
RosterNames == {AaronGordon, EricGordon, Gordon}

MaxListed == 2

RosterLists == UNION {[1..n -> RosterNames] : n \in 0..MaxListed}

\* The roster tables: the one of the source, and small ones of two teams
RosterTables ==
  {NBA_ROSTERS} \cup
  { <<[team |-> "Denver Nuggets", players |-> first],
      [team |-> "Phoenix Suns", players |-> second]>> :
      first \in RosterLists, second \in RosterLists }

InitIndex ==
  /\ pc = "index"
  /\ nparts = 0
  /\ transcript = <<>>
  /\ mentions = <<>>
  /\ unique_mentions = <<>>
  /\ context = <<>>
  /\ result = NoResult
  /\ LLMIdle
  /\ BatchIdle
  /\ StoreEmpty
  /\ QueryIdle
  /\ roster_table \in RosterTables
  /\ player_to_team = <<>>
  /\ team_at = 1
  /\ player_at = 1
  /\ SaveIdle

\* the body of the inner loop, for the next player of the team
RegisterNextPlayer ==
  /\ team_at <= Len(roster_table)
  /\ player_at <= Len(roster_table[team_at].players)
  /\ player_to_team' = RegisterPlayer(player_to_team, roster_table[team_at].team,
                                      roster_table[team_at].players[player_at])
  /\ player_at' = player_at + 1
  /\ UNCHANGED <<textVars, callVars, llmVars, batchVars, storeVars, queryVars, saveVars,
                 roster_table, team_at>>

\* the players of the team are done: the outer loop goes to the next team
NextRoster ==
  /\ team_at <= Len(roster_table)
  /\ player_at > Len(roster_table[team_at].players)
  /\ team_at' = team_at + 1
  /\ player_at' = 1
  /\ UNCHANGED <<textVars, callVars, llmVars, batchVars, storeVars, queryVars, saveVars,
                 roster_table, player_to_team>>

NextIndex == RegisterNextPlayer \/ NextRoster

SpecIndex == InitIndex /\ [][NextIndex]_vars


(***************************************************************************)
(* A long history: the store holds about a hundred records of one player   *)
(* when compute_player_trends is called, and records go on being saved.    *)
(***************************************************************************)
DigitChars == <<"0","1","2","3","4","5","6","7","8","9">>

TwoDigits(n) == <<DigitChars[(n \div 10) + 1], DigitChars[(n % 10) + 1]>>

\* the date of the d-th day counted in months of 28 days: 1 is "2024-01-01",
\* 29 is "2024-02-01"
HistoryDate(d) ==
  <<"2","0","2","4","-">> \o TwoDigits(((d - 1) \div 28) + 1) \o <<"-">>
    \o TwoDigits(((d - 1) % 28) + 1)

\* The numbers of records in the store at the start
HistoryLengths == {3, 99, 100, 101, 102}

\* The scores (in ten-thousandths) of the records beyond the hundred latest,
\* and of the hundred latest
OldScores == {0 - 10000, 5000}

NewScores == {0, 2500}

\* the most records saved after the start
MaxSaves == 1

\* The PlayerMention of day d of a history of n days: the days before the
\* hundred latest have the old score, the latest day a context of 201
\* characters; with a tie, the last day before the hundred latest has the
\* date of the day after it.
HistoryMention(n, d, old, new, tie) ==
  LET score == [num |-> IF d <= n - FetchLimit THEN old ELSE new, den |-> 10000]
  IN  [player_name      |-> JaysonTatum,
       team             |-> "Boston Celtics",
       context          |-> IF d = n THEN Filler(LatestContextLen + 1) ELSE FeedContext,
       sentiment_score  |-> score,
       sentiment_label  |-> rule_label(score),
       confidence       |-> 5000,
       indicators       |-> <<>>,
       video_id         |-> <<"h">> \o TwoDigits(d \div 100) \o TwoDigits(d % 100),
       coach_name       |-> "Joe Mazzulla",
       date             |-> HistoryDate(IF tie /\ d = n - FetchLimit THEN d + 1 ELSE d)]

\* the table after the n days were saved, oldest day first or latest first
History(n, old, new, tie, oldest_first) ==
  [k \in 1..n |->
     SentimentRow(HistoryMention(n, IF oldest_first THEN k ELSE n + 1 - k, old, new, tie),
                  k, 0)]

InitHistory ==
  /\ pc = "history"
  /\ nparts = 0
  /\ transcript = <<>>
  /\ mentions = <<>>
  /\ unique_mentions = <<>>
  /\ context = <<>>
  /\ result = NoResult
  /\ LLMIdle
  /\ BatchIdle
  /\ QueryIdle
  /\ IndexIdle
  /\ SaveIdle
  /\ \E n \in HistoryLengths, old \in OldScores, tie \in BOOLEAN, oldest_first \in BOOLEAN :
       /\ store = History(n, old, 0, tie, oldest_first)
       /\ next_id = n + 1
  /\ clock = 1

\* save_sentiment_results on one PlayerMention of the day after the latest;
\* clock is the time datetime.utcnow() gives, later at every save
SaveLatest ==
  /\ clock <= MaxSaves
  /\ clock' = clock + 1
  /\ \E new \in NewScores :
       \E saved \in {save_sentiment_results(store, next_id,
                       <<HistoryMention(next_id, next_id, new, new, FALSE)>>, clock)} :
         /\ store' = saved.store
         /\ next_id' = saved.next_id
  /\ query' = NoQuery
  /\ fetched' = <<>>
  /\ answer' = NoAnswer
  /\ UNCHANGED <<textVars, callVars, indexVars, saveVars, llmVars, batchVars>>

NextHistory == SaveLatest \/ ComputePlayerTrends

SpecHistory == InitHistory /\ [][NextHistory]_vars


(***************************************************************************)
(* The batch run with save_sentiment_results taken one statement at a time:*)
(* the connection is opened, one INSERT OR REPLACE is executed for each    *)
(* PlayerMention inside one transaction, and conn.commit() comes once,     *)
(* after the loop.  The process may be stopped at any point.               *)
(***************************************************************************)
\* a JSON object where a number is asked for: json.loads accepts it and
\* analyze_sentiment_llm returns it; sqlite3 cannot bind it
JsonObject == [json |-> "object"]

UnstorableAnswer ==
  [score |-> JsonObject, label |-> "positive", confidence |-> 9000, indicators |-> <<>>]

\* What the service does for a Mention in these runs: it fails and the rules
\* score the context, or it answers with the object
SaveOutcomes ==
  { [kind |-> "network_error", answer |-> NoResult],
    [kind |-> "answer", answer |-> UnstorableAnswer] }

SaveOutcomeChoices(file, with_llm) ==
  LET n == Len(file_mentions(file))
  IN  IF with_llm THEN [1..n -> SaveOutcomes] ELSE {[k \in 1..n |-> NoOutcome]}

\* What TRANSCRIPTS_DIR.glob("*.json") may list in these runs
SaveDirectories ==
  { <<FileGordon>>,
    <<FileGordon, FileTatum>>,
    <<FileNotJson, FileGordon>> }

\* sqlite3 binds int, float, str, bytes and None
storable(m) == m.sentiment_score # JsonObject

\* a commit after each INSERT: every row is in the table at once
table_committed_each(rows, seen) == seen

\* the table other connections see while the INSERTs of a save go on: the
\* commit comes after the loop
table_during_save(rows, seen) == rows

InitSave ==
  /\ pc = "save"
  /\ nparts = 0
  /\ transcript = <<>>
  /\ mentions = <<>>
  /\ unique_mentions = <<>>
  /\ context = <<>>
  /\ result = NoResult
  /\ LLMIdle
  /\ directory \in SaveDirectories
  /\ limit = <<>>
  /\ files = <<>>
  /\ use_llm = FALSE
  /\ bpc = "idle"
  /\ idx = 1
  /\ processed = {}
  /\ failed = {}
  /\ completed = 0
  /\ runs = 0
  /\ StoreEmpty
  /\ QueryIdle
  /\ IndexIdle
  /\ SaveIdle

\* analyze_transcript on the next file.  An exception is caught by the loop
\* of run_batch_analysis; an empty list is not saved; otherwise
\* save_sentiment_results is entered and opens its connection.
AnalyzeTranscript ==
  /\ bpc = "running"
  /\ idx <= Len(files)
  /\ \E outcomes \in SaveOutcomeChoices(files[idx], use_llm) :
       \E analysis \in {analyze_transcript(files[idx], use_llm, outcomes)} :
         IF analysis.raised
           THEN /\ failed' = failed \cup {idx}
                /\ idx' = idx + 1
                /\ UNCHANGED <<bpc, processed, pending, txn>>
         ELSE IF analysis.value = <<>>
           THEN /\ processed' = processed \cup {idx}
                /\ idx' = idx + 1
                /\ UNCHANGED <<bpc, failed, pending, txn>>
         ELSE /\ pending' = analysis.value
              /\ txn' = [rows |-> store, next_id |-> next_id]
              /\ bpc' = "saving"
              /\ UNCHANGED <<idx, processed, failed>>
  /\ UNCHANGED <<textVars, callVars, indexVars, llmVars, directory, limit, files, use_llm,
                 completed, runs, storeVars, queryVars, executed, write_lock>>

\* cursor.execute of the INSERT OR REPLACE for the next PlayerMention.  A
\* value that cannot be bound raises sqlite3.ProgrammingError, and the first
\* INSERT raises sqlite3.OperationalError (database is locked) while a
\* connection left open holds the lock: the exception leaves
\* save_sentiment_results before commit() and close() and is caught by the
\* loop of run_batch_analysis.  The connection left open keeps the lock when
\* it has written.
ExecuteInsert ==
  /\ bpc = "saving"
  /\ executed < Len(pending)
  /\ IF \/ ~storable(pending[executed + 1])
        \/ (executed = 0 /\ write_lock = "held")
       THEN /\ failed' = failed \cup {idx}
            /\ idx' = idx + 1
            /\ bpc' = "running"
            /\ pending' = <<>>
            /\ executed' = 0
            /\ txn' = NoTransaction
            /\ write_lock' = IF executed > 0 THEN "held" ELSE write_lock
            /\ UNCHANGED store
       ELSE \E written \in {insert_or_replace(txn.rows,
                              SentimentRow(pending[executed + 1], txn.next_id, clock))} :
              /\ txn' = [rows |-> written.rows, next_id |-> txn.next_id + 1]
              /\ executed' = executed + 1
              /\ store' = table_during_save(store, written.rows)
              /\ UNCHANGED <<failed, idx, bpc, pending, write_lock>>
  /\ UNCHANGED <<textVars, callVars, indexVars, llmVars, directory, limit, files, use_llm,
                 processed, completed, runs, next_id, clock, queryVars>>

\* conn.commit() and conn.close() after the loop; the try block of
\* run_batch_analysis ends without an exception
CommitInserts ==
  /\ bpc = "saving"
  /\ executed = Len(pending)
  /\ store' = txn.rows
  /\ next_id' = txn.next_id
  /\ processed' = processed \cup {idx}
  /\ idx' = idx + 1
  /\ bpc' = "running"
  /\ pending' = <<>>
  /\ executed' = 0
  /\ txn' = NoTransaction
  /\ UNCHANGED <<textVars, callVars, indexVars, llmVars, directory, limit, files, use_llm,
                 failed, completed, runs, clock, queryVars, write_lock>>

\* the process is stopped, between two transcripts or inside a save: what
\* was not committed is rolled back and every lock is released
StopProcess ==
  /\ bpc \in {"running", "saving"}
  /\ bpc' = "interrupted"
  /\ pending' = <<>>
  /\ executed' = 0
  /\ txn' = NoTransaction
  /\ write_lock' = "free"
  /\ UNCHANGED <<textVars, callVars, indexVars, llmVars, directory, limit, files, use_llm, idx,
                 processed, failed, completed, runs, storeVars, queryVars>>

\* the garbage collector frees a connection left open: its transaction is
\* rolled back and the lock released
CollectConnection ==
  /\ write_lock = "held"
  /\ write_lock' = "free"
  /\ UNCHANGED <<textVars, callVars, indexVars, llmVars, batchVars, storeVars, queryVars,
                 pending, executed, txn>>

NextSave ==
  \/ StartBatch
  \/ AnalyzeTranscript
  \/ ExecuteInsert
  \/ CommitInserts
  \/ FinishBatch
  \/ StopProcess
  \/ CollectConnection

SpecSave == InitSave /\ [][NextSave]_vars


(***************************************************************************)
(* The locator called with a coach team: a caller builds a transcript and  *)
(* calls extract_player_mentions(transcript, coach_team).                  *)
(***************************************************************************)
\* The values passed as coach_team
CoachTeams == {NoTeam, "Boston Celtics", "Denver Nuggets", "Phoenix Suns"}

ExtractForCoach ==
  /\ pc = "input"
  /\ \E coach_team \in CoachTeams :
       /\ for_team' = coach_team
       /\ unique_mentions' = extract_player_mentions(transcript, coach_team)
  /\ mentions' = found_mentions(PLAYER_TO_TEAM, transcript)
  /\ pc' = "located"
  /\ UNCHANGED <<nparts, transcript, context, result, llmVars, batchVars, storeVars,
                 queryVars, indexVars, saveVars>>

\* The transcripts of these calls: two sentences, each one of these
CoachSentences ==
  { <<"J","a","y","s","o","n"," ","T","a","t","u","m"," ","p","l","a","y","e","d"," ",
      "g","r","e","a","t">>,
    <<"E","r","i","c"," ","G","o","r","d","o","n"," ","s","t","r","u","g","g","l","e","d">>,
    <<"B","o","o","k","e","r">>,
    <<"G","o","r","d","o","n">>,
    <<"W","e"," ","m","o","v","e"," ","o","n">> }

CoachTranscripts ==
  {first \o <<".", " ">> \o second : first \in CoachSentences, second \in CoachSentences}

InitCoach ==
  /\ pc = "input"
  /\ nparts = 0
  /\ transcript \in CoachTranscripts
  /\ mentions = <<>>
  /\ unique_mentions = <<>>
  /\ context = <<>>
  /\ result = NoResult
  /\ LLMIdle
  /\ BatchIdle
  /\ StoreEmpty
  /\ QueryIdle
  /\ IndexIdle
  /\ SaveIdle

NextCoach == ExtractForCoach

SpecCoach == InitCoach /\ [][NextCoach]_vars

(***************************************************************************)
(* Properties of the Sentiment Scorer (checked under SpecScorer)           *)
(***************************************************************************)
Range(s) == {s[i] : i \in 1..Len(s)}

\* the distinct phrases of a list that occur in the lower-cased context
PhrasesIn(indicator_list, text) ==
  LET text_lower == lower(text)
  IN  {phrase \in Range(indicator_list) : Contains(text_lower, phrase)}

posCount == Cardinality(PhrasesIn(POSITIVE_INDICATORS, context))

negCount == Cardinality(PhrasesIn(NEGATIVE_INDICATORS, context))

\* the phrases of the Neutral list that occur in the context, in list order
NeutralMatches ==
  LET present == PhrasesIn(NEUTRAL_INDICATORS, context)
      at      == {i \in 1..Len(NEUTRAL_INDICATORS) : NEUTRAL_INDICATORS[i] \in present}
      ordered == SortedSeq(at)
  IN  [k \in 1..Len(ordered) |-> NEUTRAL_INDICATORS[ordered[k]]]

\* C1: the score returned by analyze_sentiment_rules lies in [-1, 1] for
\* every context.
C1_ScoreWithinBounds ==
  pc = "scored" =>
    /\ result.score.den > 0
    /\ 0 - result.score.den <= result.score.num
    /\ result.score.num <= result.score.den

\* a scored context with at least five indicators and a non-zero score
C1_Witness ==
  /\ pc = "scored"
  /\ Len(result.indicators) >= 5
  /\ result.score.num # 0

\* C2: with no Positive-list and no Negative-list phrase in the context the
\* result is score 0.0, label "neutral", confidence 0.3 and the matching
\* Neutral-list phrases in list order, or "no clear indicators" when no
\* Neutral-list phrase matches.
C2_NoIndicatorResult ==
  (pc = "scored" /\ posCount = 0 /\ negCount = 0) =>
    LET neutral == NeutralMatches
    IN  /\ result.score.num = 0
        /\ result.label = "neutral"
        /\ result.confidence = 3000
        /\ result.indicators =
             IF neutral = <<>> THEN <<NoClearIndicators>> ELSE neutral

\* a scored context without any indicator phrase at all
C2_Witness ==
  /\ pc = "scored"
  /\ Len(context) > 0
  /\ posCount = 0 /\ negCount = 0
  /\ NeutralMatches = <<>>
  /\ result.indicators = <<NoClearIndicators>>

\* C3: with posCount + negCount >= 1 the score is
\* (posCount - negCount) / (posCount + negCount + 0.001), and the label is
\* "positive" exactly when score > 0.2, "negative" exactly when
\* score < -0.2 and "neutral" otherwise; equal counts give "neutral".
C3_ScoreAndLabel ==
  pc = "scored" =>
    LET pos == posCount
        neg == negCount
    IN  (pos + neg >= 1) =>
          /\ result.score.num * (1000 * (pos + neg) + 1)
               = 1000 * (pos - neg) * result.score.den
          /\ (result.label = "positive") <=> (5 * result.score.num > result.score.den)
          /\ (result.label = "negative") <=> (5 * result.score.num < 0 - result.score.den)
          /\ result.label \in {"positive", "negative", "neutral"}
          /\ (pos = neg) => (result.label = "neutral")

\* three positive against two negative phrases: a positive score below 0.2
C3_Witness ==
  /\ pc = "scored"
  /\ posCount = 3 /\ negCount = 2
  /\ result.score.num > 0
  /\ result.label = "neutral"

\* C4: with posCount + negCount >= 1 the confidence is
\* min(0.9, 0.4 + 0.1 * (posCount + negCount + 0.001)): it grows with the
\* number of matches up to 4 of them, is 0.9 from 5 matches on, and lies
\* in [0, 1].
C4_Confidence ==
  pc = "scored" =>
    LET matches == posCount + negCount
    IN  (matches >= 1) =>
          /\ (matches <= 4) => (result.confidence = 4001 + 1000 * matches)
          /\ (matches > 1 /\ matches <= 4) =>
               (result.confidence > 4001 + 1000 * (matches - 1))
          /\ (matches >= 5) => (result.confidence = 9000)
          /\ result.confidence >= 0
          /\ result.confidence <= 10000

\* a scored context with five or more matches, at the cap
C4_Witness ==
  /\ pc = "scored"
  /\ posCount + negCount >= 5
  /\ result.confidence = 9000

\* C5: a context with a Positive-list phrase and no Negative-list phrase
\* scores above 0 with label "positive"; a context with a Negative-list
\* phrase and no Positive-list phrase scores below 0 with label "negative",
\* as the example sentence with its three negative matches does.
C5_OneSidedContexts ==
  pc = "scored" =>
    LET pos == posCount
        neg == negCount
    IN  /\ (pos >= 1 /\ neg = 0) =>
             (result.score.num > 0 /\ result.label = "positive")
        /\ (neg >= 1 /\ pos = 0) =>
             (result.score.num < 0 /\ result.label = "negative")
        /\ (context = ExampleNegativeContext) =>
             (pos = 0 /\ neg = 3 /\ Len(result.indicators) = 3
                /\ result.label = "negative")

\* the example sentence, scored
C5_Witness ==
  /\ pc = "scored"
  /\ context = ExampleNegativeContext
  /\ result.label = "negative"
  /\ result.score.num < 0

(***************************************************************************)
(* Properties of the Mention Locator (checked under SpecLocator)           *)
(***************************************************************************)
\* name stands in the lower-cased text at 0-based offset pos, and neither
\* the character before it nor the character after it is a letter, a digit
\* or an underscore
WholeWordAt(text_lower, name, pos) ==
  /\ pos + Len(name) <= Len(text_lower)
  /\ SubSeq(text_lower, pos + 1, pos + Len(name)) = name
  /\ (pos = 0 \/ ~IsWordChar(text_lower[pos]))
  /\ (pos + Len(name) = Len(text_lower) \/ ~IsWordChar(text_lower[pos + Len(name) + 1]))

\* the offsets at which a word starts with a letter
WordStartOffsets(text_lower) ==
  {p \in 0..(Len(text_lower) - 1) :
     /\ IsLetter(text_lower[p + 1])
     /\ (p = 0 \/ ~IsWordChar(text_lower[p]))}

\* <<e, p>>: the identifier of index entry e is a whole word at offset p of
\* the transcript, whatever the case of the transcript's letters
IdentifierHits ==
  LET text_lower == lower(transcript)
  IN  {h \in (1..Len(PLAYER_TO_TEAM)) \X WordStartOffsets(text_lower) :
         WholeWordAt(text_lower, PLAYER_TO_TEAM[h[1]].name, h[2])}

\* the index entries whose match at m.position yields the Mention m
Producers(m) ==
  LET text_lower == lower(transcript)
  IN  {e \in 1..Len(PLAYER_TO_TEAM) :
         /\ PLAYER_TO_TEAM[e].team = m.team
         /\ WholeWordAt(text_lower, PLAYER_TO_TEAM[e].name, m.position)
         /\ title(resolve_full_name(PLAYER_TO_TEAM, PLAYER_TO_TEAM[e].name,
                                    PLAYER_TO_TEAM[e].team)) = m.player_name}

\* <<ti, pi>>: the places of the roster table
RosterPlaces ==
  {tp \in (1..Len(NBA_ROSTERS)) \X (1..8) : tp[2] <= Len(NBA_ROSTERS[tp[1]].players)}

\* C6: a transcript with exactly one occurrence of a roster full name F,
\* and no roster identifier outside that occurrence, yields exactly one
\* Mention: F title-cased, with F's roster team.
C6_OneFullNameOneMention ==
  pc = "located" =>
    LET text_lower == lower(transcript)
        starts     == WordStartOffsets(text_lower)
        hits       == IdentifierHits
    IN  \A tp \in RosterPlaces :
          LET F  == lower(NBA_ROSTERS[tp[1]].players[tp[2]])
              at == {p \in starts : WholeWordAt(text_lower, F, p)}
          IN  (/\ Cardinality(at) = 1
               /\ \A h \in hits :
                    \A p \in at :
                      /\ h[2] >= p
                      /\ h[2] + Len(PLAYER_TO_TEAM[h[1]].name) <= p + Len(F))
              => /\ Len(unique_mentions) = 1
                 /\ unique_mentions[1].player_name = title(F)
                 /\ unique_mentions[1].team = NBA_ROSTERS[tp[1]].team

\* C7: every Mention stands at a whole-word, case-insensitive occurrence of
\* a roster identifier of its team; an identifier inside a longer token
\* yields no Mention; without any whole-word occurrence the result is empty,
\* and with one it is not.
C7_WholeWordMatches ==
  pc = "located" =>
    LET hits == IdentifierHits
    IN  /\ \A k \in 1..Len(unique_mentions) :
             \E h \in hits :
               /\ h[2] = unique_mentions[k].position
               /\ PLAYER_TO_TEAM[h[1]].team = unique_mentions[k].team
        /\ (hits = {}) <=> (unique_mentions = <<>>)

\* "tatum"
TatumAlias == <<"t","a","t","u","m">>

\* "tatum" occurs only inside longer tokens and nothing is returned
C7_Witness ==
  /\ pc = "located"
  /\ \E p \in 0..(Len(transcript) - 5) :
       SubSeq(lower(transcript), p + 1, p + 5) = TatumAlias
  /\ IdentifierHits = {}
  /\ unique_mentions = <<>>

\* C8: every Mention returned has a context of at most 500 characters.
C8_ContextAtMost500 ==
  pc = "located" =>
    \A k \in 1..Len(unique_mentions) : Len(unique_mentions[k].context) <= 500

\* a Mention whose context was cut: 500 characters out of a longer text
C8_Witness ==
  /\ pc = "located"
  /\ Len(transcript) > 600
  /\ \E k \in 1..Len(unique_mentions) : Len(unique_mentions[k].context) = 500

\* C9: the context of every Mention contains, case-insensitively, the
\* identifier matched at the Mention's position.
C9_ContextContainsIdentifier ==
  pc = "located" =>
    \A k \in 1..Len(unique_mentions) :
      \A e \in Producers(unique_mentions[k]) :
        Contains(lower(unique_mentions[k].context), PLAYER_TO_TEAM[e].name)

\* the deduplication key of the claim: name and first 100 characters
NameAndContextStart(m) ==
  <<m.player_name,
    SubSeq(m.context, 1, IF Len(m.context) > 100 THEN 100 ELSE Len(m.context))>>

\* the places of `mentions` that are the first with their key
FirstWithKey ==
  {i \in 1..Len(mentions) :
     \A j \in 1..(i - 1) :
       NameAndContextStart(mentions[j]) # NameAndContextStart(mentions[i])}

\* C10: no two returned Mentions share player_name and the first 100
\* characters of context; the one kept for a key is the first discovered,
\* the kept ones stay in discovery order, and discovery goes by index entry
\* and then by ascending position.
C10_Deduplicated ==
  pc = "located" =>
    /\ \A i, j \in 1..Len(unique_mentions) :
         i < j => NameAndContextStart(unique_mentions[i])
                    # NameAndContextStart(unique_mentions[j])
    /\ LET kept == SortedSeq(FirstWithKey)
       IN  unique_mentions = [k \in 1..Len(kept) |-> mentions[kept[k]]]
    /\ \A i \in 1..(Len(mentions) - 1) :
         \E e1 \in Producers(mentions[i]), e2 \in Producers(mentions[i + 1]) :
           \/ e1 < e2
           \/ e1 = e2 /\ mentions[i].position < mentions[i + 1].position

\* a duplicate was dropped and two different Mentions were kept
C10_Witness ==
  /\ pc = "located"
  /\ Len(unique_mentions) >= 2
  /\ Len(unique_mentions) < Len(mentions)

\* the places of the roster table whose player, on the given team, has the
\* given last-name token and a longer full name
SameTeamFullNames(team, alias) ==
  {tp \in RosterPlaces :
     /\ NBA_ROSTERS[tp[1]].team = team
     /\ lower(last_token(NBA_ROSTERS[tp[1]].players[tp[2]])) = alias
     /\ lower(NBA_ROSTERS[tp[1]].players[tp[2]]) # alias}

IsRosterFullName(name) ==
  \E tp \in RosterPlaces : lower(NBA_ROSTERS[tp[1]].players[tp[2]]) = name

\* C11: a Mention matched on a last-name alias carries the title-cased full
\* name of a player of the alias's team with that last name, when the
\* roster has one; otherwise, and for a match on a full name, it carries
\* the matched identifier title-cased.
C11_AliasResolution ==
  pc = "located" =>
    LET text_lower == lower(transcript)
    IN  \A k \in 1..Len(unique_mentions) :
          \E e \in 1..Len(PLAYER_TO_TEAM) :
            LET name == PLAYER_TO_TEAM[e].name
                team == PLAYER_TO_TEAM[e].team
            IN  /\ team = unique_mentions[k].team
                /\ WholeWordAt(text_lower, name, unique_mentions[k].position)
                /\ IF ~IsRosterFullName(name) /\ SameTeamFullNames(team, name) # {}
                     THEN \E tp \in SameTeamFullNames(team, name) :
                            unique_mentions[k].player_name
                              = title(NBA_ROSTERS[tp[1]].players[tp[2]])
                     ELSE unique_mentions[k].player_name = title(name)

\* the bare alias "tatum" resolved to "Jayson Tatum"
C11_Witness ==
  /\ pc = "located"
  /\ transcript = TatumAlias
  /\ Len(unique_mentions) = 1
  /\ Len(unique_mentions[1].player_name) = 12
  /\ unique_mentions[1].team = "Boston Celtics"

(***************************************************************************)
(* Properties of the external scorer (checked under SpecLLM)               *)
(***************************************************************************)
\* C14: when the external scorer cannot obtain or parse an answer it
\* returns what analyze_sentiment_rules returns on the same context, it has
\* sent at most one request, and no exception leaves it.
C14_FallbackToRules ==
  (pc = "scored" /\ llm_outcome.kind \in LLMFailures) =>
    /\ result = analyze_sentiment_rules(context)
    /\ llm_calls <= 1
    /\ ~llm_raised

\* the service answered with text that is not JSON, and the example
\* sentence got its rule-based result
C14_Witness ==
  /\ pc = "scored"
  /\ llm_outcome.kind = "not_json"
  /\ llm_calls = 1
  /\ context = ExampleNegativeContext
  /\ result.label = "negative"
  /\ Len(result.indicators) = 3

(***************************************************************************)
(* Properties of the store and the batch run (checked under SpecBatch)     *)
(***************************************************************************)
Rows(rows) == {rows[i] : i \in DOMAIN rows}

\* the fields of a stored record besides its key
RecordFields(r) ==
  <<r.sentiment_score, r.sentiment_label, r.confidence, r.indicators,
    r.coach_name, r.date, r.analyzed_at>>

\* C12: saving a record whose key is already in the store is a no-op: the
\* stored record for that key keeps every field, the first write wins.
C12_FirstWriteWins ==
  [][\A old \in Rows(store) : \A new \in Rows(store') :
       UniqueKey(old) = UniqueKey(new) => RecordFields(old) = RecordFields(new)]_vars

\* the keys of the records analyze_transcript yields for a file
KeysOf(file) ==
  {<<file.video_id, m.player_name, m.context>> : m \in Rows(file_mentions(file))}

\* the records of every readable transcript of the run are in the store
AllStored ==
  \A i \in DOMAIN files :
    Readable(files[i]) => KeysOf(files[i]) \subseteq {UniqueKey(r) : r \in Rows(store)}

\* C13: the store never holds two records with the same (video_id,
\* player_name, context), whatever runs, re-runs and interruptions happened;
\* running over transcripts whose records are all stored already leaves the
\* number of records unchanged; and no readable transcript fails, so a
\* duplicate key raises nothing out of save_sentiment_results.
C13_NoDuplicateKeys ==
  /\ [](\A i, j \in DOMAIN store :
          UniqueKey(store[i]) = UniqueKey(store[j]) => i = j)
  /\ [][AllStored => Len(store') = Len(store)]_vars
  /\ [](bpc # "crashed" /\ \A i \in failed : ~Readable(files[i]))

C13_Witness ==
  /\ files = <<FileGordon>>
  /\ runs = 2
  /\ completed = 2
  /\ Len(store) = 2
  /\ next_id = 5

ValidLabels == {"positive", "negative", "neutral"}

\* C15: every persisted record has sentiment_score in [-1, 1], a label among
\* positive, negative and neutral, and confidence in [0, 1], whichever scorer
\* produced it.
C15_RecordsWithinContract ==
  \A r \in Rows(store) :
    /\ -r.sentiment_score.den <= r.sentiment_score.num
    /\ r.sentiment_score.num <= r.sentiment_score.den
    /\ r.sentiment_label \in ValidLabels
    /\ 0 <= r.confidence
    /\ r.confidence <= 10000

\* C16, for a failure while analysing (under SpecBatch): a transcript that
\* cannot be read fails alone: the run goes on to the next transcript with
\* the store as it was, never stops on the error, and when it is over every
\* readable transcript has been analysed and its records are in the store.
C16_FailureIsPerItem ==
  /\ [](bpc # "crashed")
  /\ [][(bpc = "running" /\ idx <= Len(files) /\ ~Readable(files[idx]) /\ idx' # idx)
          => (store' = store /\ idx' = idx + 1 /\ bpc' = "running")]_vars
  /\ [](bpc = "done" =>
          \A i \in DOMAIN files :
            IF Readable(files[i])
              THEN /\ i \in processed
                   /\ KeysOf(files[i]) \subseteq {UniqueKey(r) : r \in Rows(store)}
              ELSE i \in failed)

C16_Witness ==
  /\ bpc = "done"
  /\ files = <<FileNotJson, FileTatum>>
  /\ failed = {1}
  /\ processed = {2}
  /\ Len(store) = 1

C16_WitnessEarlierKept ==
  /\ bpc = "done"
  /\ files = <<FileTatum, FileNoDate>>
  /\ failed = {2}
  /\ Len(store) = 1

\* C16, for a failure while saving (under SpecSave): the failure of one
\* transcript is its own: a later transcript that was analysed and whose
\* records can all be stored is saved, never counted as failed.
C16_LaterTranscriptsSaved ==
  [][(bpc = "saving" /\ \A k \in DOMAIN pending : storable(pending[k]))
       => idx \notin failed']_vars

\* the save of an earlier transcript failed after its first INSERT, and the
\* next transcript, whose records can be stored, is being saved
C16_WitnessAfterFailedSave ==
  /\ bpc = "saving"
  /\ idx = 2
  /\ failed = {1}
  /\ write_lock = "held"
  /\ \A k \in DOMAIN pending : storable(pending[k])

(***************************************************************************)
(* Properties of the trend and report queries (checked under SpecTrend)    *)
(***************************************************************************)
RecordsOfPlayer(player_name) == {i \in DOMAIN store : store[i].player_name = player_name}

RecordsOfTeam(team) == {i \in DOMAIN store : store[i].team = team}

\* the no-data results
NoDataFor(name) == [kind |-> "error", error |-> name]

EmptyReport(team) ==
  [kind |-> "report", team |-> team, total_players_mentioned |-> 0,
   players |-> <<>>, coach_favorites |-> <<>>, players_to_watch |-> <<>>]

\* C17 as stated: a query for a player or for a team without records returns
\* an explicit no-data result, never trend fields or an ordinary report.
C17_NoDataResults ==
  /\ (query.op = "compute_player_trends" /\ RecordsOfPlayer(query.arg) = {})
       => answer.kind = "error"
  /\ (query.op = "get_team_sentiment_report" /\ RecordsOfTeam(query.arg) = {})
       => answer.kind = "error"

\* C17 (amended): compute_player_trends for a player without records returns
\* the error entry alone; get_team_sentiment_report for a team without
\* records returns an ordinary report that counts no player and whose three
\* lists are empty.
C17_NoDataOrEmptyReport ==
  /\ (query.op = "compute_player_trends" /\ RecordsOfPlayer(query.arg) = {})
       => answer = NoDataFor(query.arg)
  /\ (query.op = "get_team_sentiment_report" /\ RecordsOfTeam(query.arg) = {})
       => answer = EmptyReport(query.arg)

C17_Witness ==
  /\ query = [op |-> "get_team_sentiment_report", arg |-> "Phoenix Suns"]
  /\ Len(store) >= 2
  /\ answer.total_players_mentioned = 0

C17_WitnessPlayer ==
  /\ query = [op |-> "compute_player_trends", arg |-> DevinBooker]
  /\ Len(store) >= 2
  /\ answer.kind = "error"

\* C18: for a player with at least 1 and fewer than 5 records, whatever the
\* scores, older_avg equals recent_avg, the trend is "stable" and
\* trend_magnitude is 0.
C18_FewRecordsStable ==
  (/\ query.op = "compute_player_trends"
   /\ Cardinality(RecordsOfPlayer(query.arg)) \in 1..4)
    => /\ answer.kind = "trend"
       /\ answer.older_avg = answer.recent_avg
       /\ answer.trend = "stable"
       /\ answer.trend_magnitude = 0

C18_Witness ==
  /\ query = [op |-> "compute_player_trends", arg |-> JaysonTatum]
  /\ Len(fetched) = 3
  /\ answer.recent_avg = 234
  /\ answer.older_avg = 234
  /\ answer.trend = "stable"

\* the number of times x is in the sequence s
Count(s, x) == Cardinality({i \in DOMAIN s : s[i] = x})

\* fetched holds the records of the player, each once, later dates first
FetchedLatestFirst ==
  /\ Len(fetched) = Cardinality(RecordsOfPlayer(query.arg))
  /\ \A i \in RecordsOfPlayer(query.arg) :
       Count(fetched, TrendColumns(store[i]))
         = Cardinality({j \in RecordsOfPlayer(query.arg) :
                          TrendColumns(store[j]) = TrendColumns(store[i])})
  /\ \A i, j \in DOMAIN fetched : i < j => ~text_less(fetched[i].date, fetched[j].date)

ScoresOf(rows) == [i \in 1..Len(rows) |-> rows[i].sentiment_score]

\* the mean of the 5 first fetched scores, and of the others
RecentMean == mean(ScoresOf(SubSeq(fetched, 1, 5)))

OlderMean == mean(ScoresOf(SubSeq(fetched, 6, Len(fetched))))

\* t thousandths is the fraction x
Exactly(t, x) == t * x.den = 1000 * x.num

\* t thousandths is x rounded to three decimals
Rounded(t, x) == 2 * Abs(t * x.den - 1000 * x.num) <= x.den

\* the trend reported for a difference; a difference that is 0.2 or -0.2 up
\* to the last bits of the floats falls on either side
TrendFor(diff, t) ==
  /\ frac_less(TrendThreshold, diff) => t = "improving"
  /\ frac_less(diff, MinusTrendThreshold) => t = "declining"
  /\ (frac_less(MinusTrendThreshold, diff) /\ frac_less(diff, TrendThreshold))
       => t = "stable"
  /\ frac_eq(diff, TrendThreshold) => t \in {"improving", "stable"}
  /\ frac_eq(diff, MinusTrendThreshold) => t \in {"declining", "stable"}

\* C19 as stated: with more than 5 records, recent_avg is the mean score of
\* the 5 records of latest date, older_avg the mean of the other fetched
\* records, the trend follows their difference and trend_magnitude is the
\* absolute difference.
C19_TrendFromMeans ==
  (/\ query.op = "compute_player_trends"
   /\ Cardinality(RecordsOfPlayer(query.arg)) > 5)
    => LET recent == RecentMean
           older  == OlderMean
           diff   == frac_sub(recent, older)
       IN  /\ answer.kind = "trend"
           /\ FetchedLatestFirst
           /\ Exactly(answer.recent_avg, recent)
           /\ Exactly(answer.older_avg, older)
           /\ TrendFor(diff, answer.trend)
           /\ Exactly(answer.trend_magnitude, frac_abs(diff))

\* C19 (amended): the trend follows the difference of the two means, and the
\* returned recent_avg, older_avg and trend_magnitude are the two means and
\* the absolute difference, each rounded to three decimals.
C19_TrendFromMeansRounded ==
  (/\ query.op = "compute_player_trends"
   /\ Cardinality(RecordsOfPlayer(query.arg)) > 5)
    => LET recent == RecentMean
           older  == OlderMean
           diff   == frac_sub(recent, older)
       IN  /\ answer.kind = "trend"
           /\ FetchedLatestFirst
           /\ Rounded(answer.recent_avg, recent)
           /\ Rounded(answer.older_avg, older)
           /\ TrendFor(diff, answer.trend)
           /\ Rounded(answer.trend_magnitude, frac_abs(diff))

\* recent scores 0.201, 0.5, 0.5 and two 0, older score 0: the difference is
\* 0.2402
C19_Witness ==
  /\ query = [op |-> "compute_player_trends", arg |-> JaysonTatum]
  /\ Len(fetched) = 6
  /\ answer.trend = "improving"
  /\ answer.recent_avg = 240
  /\ answer.older_avg = 0
  /\ answer.trend_magnitude = 240

PlayersInStore == {store[i].player_name : i \in DOMAIN store}

\* the magnitudes compute_player_trends may return for a player
MagnitudesOf(player_name) ==
  {returned.answer.trend_magnitude : returned \in compute_player_trends(store, player_name)}

\* C20: find_sentiment_shifts(min_shift) returns one entry for each player of
\* the store whose trend_magnitude is at least min_shift, none for any other
\* player, in order of non-increasing magnitude.
C20_ShiftsFilteredAndSorted ==
  query.op = "find_sentiment_shifts" =>
    LET shifts  == answer.shifts
        entries == DOMAIN shifts
    IN  /\ \A i, j \in entries : shifts[i].player_name = shifts[j].player_name => i = j
        /\ \A i \in entries :
             /\ shifts[i].player_name \in PlayersInStore
             /\ shifts[i].magnitude >= query.arg
             /\ shifts[i].magnitude \in MagnitudesOf(shifts[i].player_name)
        /\ \A p \in PlayersInStore :
             (\A i \in entries : shifts[i].player_name # p)
               => \E m \in MagnitudesOf(p) : m < query.arg
        /\ \A i, j \in entries : i < j => shifts[i].magnitude >= shifts[j].magnitude

C20_Witness ==
  /\ query = [op |-> "find_sentiment_shifts", arg |-> 0]
  /\ Len(answer.shifts) = 2
  /\ answer.shifts[1].player_name = JaysonTatum
  /\ answer.shifts[1].magnitude = 500
  /\ answer.shifts[2].magnitude = 0

C20_WitnessFiltered ==
  /\ query = [op |-> "find_sentiment_shifts", arg |-> 300]
  /\ Cardinality(PlayersInStore) = 2
  /\ Len(answer.shifts) = 1

\* AVG(sentiment_score) of the records a player has for a team
StoredAverage(team, player_name) ==
  LET own(r) == r.team = team /\ r.player_name = player_name
  IN  mean(ScoresOf(SelectSeq(store, own)))

\* 0.3
FavoriteAverage == [num |-> 3, den |-> 10]

InList(names, name) == \E k \in DOMAIN names : names[k] = name

\* C21: in a team report a player is in players_to_watch exactly when the
\* average of the player's stored scores is below -0.2, that is exactly when
\* the player's sentiment_category is "negative", and in coach_favorites
\* exactly when that average is above 0.3.
C21_WatchAndFavorites ==
  query.op = "get_team_sentiment_report" =>
    \A i \in DOMAIN answer.players :
      LET p       == answer.players[i]
          average == StoredAverage(query.arg, p.player_name)
          watched == InList(answer.players_to_watch, p.player_name)
      IN  /\ watched <=> frac_less(average, MinusTrendThreshold)
          /\ watched <=> p.sentiment_category = "negative"
          /\ InList(answer.coach_favorites, p.player_name)
               <=> frac_less(FavoriteAverage, average)

(***************************************************************************)
(* Properties of the limit of a batch run (checked under SpecBatch)        *)
(***************************************************************************)
\* C22: a run given limit = n, n a non-negative integer, goes over the first
\* n transcripts listed and no more: it analyses at most n transcripts; a
\* run given None goes over all of them.
C22_LimitBoundsTheRun ==
  bpc \in {"running", "done", "interrupted"} =>
    /\ processed \cup failed \subseteq DOMAIN files
    /\ bpc = "done" => processed \cup failed = DOMAIN files
    /\ IF limit # NoLimit
         THEN /\ limit[1] >= 0
              /\ Len(files) <= limit[1]
              /\ files = slice_to(directory, limit[1])
         ELSE files = directory

(***************************************************************************)
(* Properties of the context of a mention (checked under SpecLocator)      *)
(***************************************************************************)
\* the units whose running character count exceeds the offset
UnitsOver(sentences, start_pos) ==
  {k \in 1..Len(sentences) : char_count(sentences, k) > start_pos}

\* unit i with its neighbours: the unit before and ". " when i is not the
\* first unit, the unit, ". " and the unit after when i is not the last one
ContextAround(sentences, i) ==
  LET base   == strip(sentences[i])
      before == IF i > 1 THEN strip(sentences[i - 1]) \o <<".", " ">> ELSE <<>>
      after  == IF i < Len(sentences)
                  THEN <<".", " ">> \o strip(sentences[i + 1]) ELSE <<>>
  IN  IF Len(base) >= ShortContextLen THEN base ELSE before \o base \o after

\* C23: when the base context of an occurrence is sentence unit i and is
\* shorter than 100 characters, the context before truncation is unit i - 1
\* and ". " (exactly when i is not the first unit), the base context, and
\* ". " and unit i + 1 (exactly when i is not the last unit); a base context
\* of 100 characters or more is used unchanged.  This holds wherever the
\* unit stands, also when it begins with whitespace or occurs twice.
C23_ContextFromNeighbours ==
  pc = "located" =>
    \A k \in DOMAIN mentions :
      LET sentences == split_sentences(transcript)
          over      == UnitsOver(sentences, mentions[k].position)
      IN  over # {} =>
            mentions[k].context
              = Prefix(ContextAround(sentences, Min(over)), MaxContextLen)

\* C24: an occurrence for which the scan over the units never exceeds its
\* offset (no unit is selected) gives a Mention whose context is the empty
\* string.
C24_NoUnitEmptyContext ==
  pc = "located" =>
    \A k \in DOMAIN mentions :
      UnitsOver(split_sentences(transcript), mentions[k].position) = {}
        => mentions[k].context = <<>>

(***************************************************************************)
(* Properties of the roster index (checked under SpecIndex)                *)
(***************************************************************************)
\* the places <<team, player>> of the roster table, and their order
Places ==
  UNION {{<<t, p>> : p \in DOMAIN roster_table[t].players} : t \in DOMAIN roster_table}

Before(a, b) == a[1] < b[1] \/ (a[1] = b[1] /\ a[2] < b[2])

full_of(a) == lower(roster_table[a[1]].players[a[2]])

last_of(a) == lower(last_token(roster_table[a[1]].players[a[2]]))

team_of(a) == roster_table[a[1]].team

FirstPlace(places) == CHOOSE a \in places : \A b \in places \ {a} : Before(a, b)

LastPlace(places) == CHOOSE a \in places : \A b \in places \ {a} : Before(b, a)

\* PLAYER_TO_TEAM[k]
IndexTeam(k) == (CHOOSE e \in Rows(player_to_team) : e.name = k).team

\* the loop over the roster table is over
Built == team_at > Len(roster_table)

BuiltTeam(k) ==
  LET named == {a \in Places : full_of(a) = k}
      ended == {a \in Places : last_of(a) = k}
  IN  IF named # {} THEN team_of(LastPlace(named)) ELSE team_of(FirstPlace(ended))

C25_WitnessSourceTable ==
  /\ Built
  /\ roster_table = NBA_ROSTERS
  /\ player_to_team = PLAYER_TO_TEAM
  /\ IndexTeam(lower(Gordon)) = "Denver Nuggets"

(***************************************************************************)
(* Properties of a query over a long history (checked under SpecHistory)   *)
(***************************************************************************)
\* the number of stored records of the player with the columns of row x
Stored(x) ==
  Cardinality({i \in RecordsOfPlayer(query.arg) : TrendColumns(store[i]) = x})

\* fetched holds the min(N, 100) records of the player with the latest
\* dates, later dates first: each fetched row is a stored record, and a
\* record left out is no later than any fetched one
FetchedHundredLatest ==
  LET N == Cardinality(RecordsOfPlayer(query.arg))
  IN  /\ Len(fetched) = (IF N < FetchLimit THEN N ELSE FetchLimit)
      /\ \A k \in DOMAIN fetched : Count(fetched, fetched[k]) <= Stored(fetched[k])
      /\ \A i, j \in DOMAIN fetched : i < j => ~text_less(fetched[i].date, fetched[j].date)
      /\ \A i \in RecordsOfPlayer(query.arg) :
           Count(fetched, TrendColumns(store[i])) < Stored(TrendColumns(store[i]))
             => ~text_less(fetched[Len(fetched)].date, store[i].date)

\* latest_mentions holds the min(N, 5) first fetched rows, in that order,
\* each context cut to 200 characters
LatestMentionsShown ==
  LET shown == IF Len(fetched) < RecentWindow THEN Len(fetched) ELSE RecentWindow
  IN  /\ Len(answer.latest_mentions) = shown
      /\ \A k \in 1..shown :
           /\ answer.latest_mentions[k].date = fetched[k].date
           /\ answer.latest_mentions[k].score = fetched[k].sentiment_score
           /\ answer.latest_mentions[k].label = fetched[k].sentiment_label
           /\ answer.latest_mentions[k].coach = fetched[k].coach_name
           /\ answer.latest_mentions[k].context = Prefix(fetched[k].context, LatestContextLen)
           /\ Len(answer.latest_mentions[k].context) <= LatestContextLen

\* C26 as stated: for a player with N records, compute_player_trends
\* aggregates the 100 records of latest date only: mention_count is
\* min(N, 100), avg_sentiment is the mean score of those records, and
\* latest_mentions holds the min(N, 5) most recent of them, latest first,
\* each context cut to at most 200 characters.
C26_HundredLatest ==
  (/\ query.op = "compute_player_trends"
   /\ RecordsOfPlayer(query.arg) # {})
    => /\ answer.kind = "trend"
       /\ FetchedHundredLatest
       /\ answer.mention_count = Len(fetched)
       /\ Exactly(answer.avg_sentiment, mean(ScoresOf(fetched)))
       /\ LatestMentionsShown

\* C26 (amended): the same, with avg_sentiment the mean score of those
\* records rounded to three decimals.
C26_HundredLatestRounded ==
  (/\ query.op = "compute_player_trends"
   /\ RecordsOfPlayer(query.arg) # {})
    => /\ answer.kind = "trend"
       /\ FetchedHundredLatest
       /\ answer.mention_count = Len(fetched)
       /\ Rounded(answer.avg_sentiment, mean(ScoresOf(fetched)))
       /\ LatestMentionsShown

\* 101 records, the oldest with score -1.0 and the others 0: the oldest is
\* left out of the count and of the average
C26_Witness ==
  /\ query = [op |-> "compute_player_trends", arg |-> JaysonTatum]
  /\ Len(store) = 101
  /\ \E i \in DOMAIN store : store[i].sentiment_score.num = 0 - 10000
  /\ answer.mention_count = 100
  /\ answer.avg_sentiment = 0
  /\ Len(answer.latest_mentions) = 5
  /\ Len(fetched[1].context) = 201
  /\ Len(answer.latest_mentions[1].context) = 200

\* 3 records: all are counted and shown
C26_WitnessFew ==
  /\ query = [op |-> "compute_player_trends", arg |-> JaysonTatum]
  /\ Len(store) = 3
  /\ answer.mention_count = 3
  /\ Len(answer.latest_mentions) = 3

(***************************************************************************)
(* Properties of the save of one transcript (checked under SpecSave)       *)
(***************************************************************************)
StoredKeys(rows) == {UniqueKey(r) : r \in Rows(rows)}

\* C27: transcripts are handled one after another and the records of a
\* transcript are persisted as a unit.  The table holds all records of a
\* transcript or none of them, in every state and so in every state between
\* two transcripts, also when the process is stopped inside a save or an
\* INSERT raises; the loop goes to the next transcript only when no save is
\* open; and a transcript counts as processed only once all its records are
\* in the table.
C27_OneTranscriptAtATime ==
  /\ [](\A i \in DOMAIN directory :
          Readable(directory[i]) =>
            \/ KeysOf(directory[i]) \subseteq StoredKeys(store)
            \/ KeysOf(directory[i]) \cap StoredKeys(store) = {})
  /\ [](bpc # "saving" => pending = <<>> /\ executed = 0 /\ txn = NoTransaction)
  /\ [][idx' # idx => bpc' # "saving"]_vars
  /\ [][(bpc = "saving" /\ idx' = idx + 1 /\ idx \in processed')
          => KeysOf(files[idx]) \subseteq StoredKeys(store')]_vars
  /\ [][(bpc = "saving" /\ idx \notin processed') => store' = store]_vars

\* between the two transcripts the two records of the first are in the
\* table
C27_Witness ==
  /\ bpc = "running"
  /\ files = <<FileGordon, FileTatum>>
  /\ idx = 2
  /\ processed = {1}
  /\ Len(store) = 2

\* one of the two INSERTs is done and nothing is in the table
C27_WitnessInsideSave ==
  /\ bpc = "saving"
  /\ Len(pending) = 2
  /\ executed = 1
  /\ Len(txn.rows) = 1
  /\ store = <<>>

\* the second INSERT raised: the transcript failed and left no record
C27_WitnessFailedSave ==
  /\ bpc = "running"
  /\ files = <<FileGordon, FileTatum>>
  /\ idx = 2
  /\ failed = {1}
  /\ write_lock = "held"
  /\ store = <<>>

(***************************************************************************)
(* Properties of the Neutral list (checked under SpecScorer)               *)
(***************************************************************************)
\* the phrases of a list other than phrase that the text contains
OthersIn(indicator_list, text, phrase) ==
  {k \in DOMAIN indicator_list :
     indicator_list[k] # phrase /\ Contains(text, indicator_list[k])}

\* C28: a context whose only indicator content is one phrase of the Neutral
\* list has score 0.0 and label "neutral", and that phrase is the indicator
\* reported: no Neutral-list phrase on its own gives "positive" or
\* "negative".
C28_NeutralPhraseIsNeutral ==
  pc = "scored" =>
    \A k \in DOMAIN NEUTRAL_INDICATORS :
      LET phrase == NEUTRAL_INDICATORS[k]
          text   == lower(context)
      IN  (/\ Contains(text, phrase)
           /\ OthersIn(POSITIVE_INDICATORS, text, phrase) = {}
           /\ OthersIn(NEGATIVE_INDICATORS, text, phrase) = {}
           /\ OthersIn(NEUTRAL_INDICATORS, text, phrase) = {})
            => /\ result.score.num = 0
               /\ result.label = "neutral"
               /\ result.indicators = <<phrase>>

IsFirstChars(part, text, n) ==
  /\ Len(part) = (IF Len(text) < n THEN Len(text) ELSE n)
  /\ \A i \in 1..Len(part) : part[i] = text[i]

\* C30: the list analyze_transcript returned for a transcript has exactly
\* one record per Mention extract_player_mentions found in it, in the same
\* order, each with that Mention's player_name, team and context; all its
\* records carry the file's video_id, one coach_name and one date, the
\* first 10 characters of published_at; with the rule-based scorer and with
\* the external one, its fallback included.
C30_OneRecordPerMention ==
  bpc = "saving" =>
    \E found \in {extract_player_mentions(files[idx].transcript, NoTeam)} :
      /\ Len(pending) = Len(found)
      /\ \A k \in 1..Len(found) :
           /\ pending[k].player_name = found[k].player_name
           /\ pending[k].team = found[k].team
           /\ pending[k].context = found[k].context
           /\ pending[k].video_id = files[idx].video_id
           /\ pending[k].coach_name = pending[1].coach_name
           /\ pending[k].date = pending[1].date
           /\ IsFirstChars(pending[k].date, files[idx].published_at, 10)

\* the two records of a transcript naming two players, scored by the
\* external scorer
C30_Witness ==
  /\ bpc = "saving"
  /\ use_llm
  /\ Len(pending) = 2
  /\ pending[1].player_name # pending[2].player_name
  /\ Len(files[idx].published_at) > 10

\* the same with the rule-based scorer
C30_WitnessRules ==
  /\ bpc = "saving"
  /\ ~use_llm
  /\ Len(pending) = 2
  /\ Len(pending[1].date) = 10

====
